---- MODULE Spec2Model ----
(***************************************************************************)
(* Model of the document-tree engine in                                    *)
(* src/Programs/ColladaConverter/Collada15/FCollada/LibXML/tree.c          *)
(*                                                                         *)
(* The heap is a function from node addresses to node records; address 0   *)
(* is the NULL pointer.  Every C function is an operator from a heap to a  *)
(* heap (and a result), written as the sequence of field assignments the   *)
(* C code performs, so that aliasing between arguments behaves as in C.    *)
(* Freed nodes stay in the heap with st = "freed": a link to such a node   *)
(* is a dangling pointer.                                                  *)
(***************************************************************************)
EXTENDS Integers, Sequences, FiniteSets, TLC

VARIABLES heap, op, steps

vars == <<heap, op, steps>>

\* ------------------------------------------------------------------ bounds
\* number of addresses of the heap (nodes and namespace declarations)
NumNodes == 13
\* number of API calls explored after construction
MaxOps == 2

\* ------------------------------------------------- constants of the code
\* the collisions xmlNewReconciliedNs tolerates before it gives up
ProbeCap == 1000
\* the characters of a prefix that "%.20s" keeps
PrefixKeep == 20

NULL == 0
Ids == 1..NumNodes

\* a NULL xmlChar*; every other string is a sequence of characters
NULLSTR == <<"NULL">>

\* the static name tags of text nodes (tree.c:100-103)
xmlStringText == "text"
xmlStringTextNoenc == "textnoenc"

\* the reserved namespace (XML_XML_NAMESPACE) and its prefix
XML_XML_NAMESPACE == <<"http://www.w3.org/XML/1998/namespace">>
XmlPrefix == <<"x", "m", "l">>

\* ------------------------------------------------------------ node records
\* a zero-initialised node (memset(cur, 0, sizeof(xmlNode)))
ZeroNode ==
  [st |-> "unalloc", type |-> "none", name |-> "", content |-> NULLSTR,
   parent |-> NULL, children |-> NULL, last |-> NULL, prev |-> NULL,
   next |-> NULL, doc |-> NULL, ns |-> NULL, properties |-> NULL,
   nsDef |-> NULL, oldNs |-> NULL, prefix |-> NULLSTR, href |-> NULLSTR,
   intSubset |-> NULL, extSubset |-> NULL]

EmptyHeap == [n \in Ids |-> ZeroNode]

\* one field assignment  n->f = v
W(h, n, f, v) == [h EXCEPT ![n][f] = v]

Live(h, n) == n # NULL /\ h[n].st = "live"

\* the pointer fields through which one node links to another
LinkFields == {"parent", "children", "last", "prev", "next", "properties"}

\* first unallocated address (xmlMalloc), NULL when the heap is exhausted
Malloc(h) ==
  IF \E n \in Ids : h[n].st = "unalloc"
  THEN CHOOSE n \in Ids : h[n].st = "unalloc" /\ \A m \in Ids : h[m].st = "unalloc" => n <= m
  ELSE NULL

\* ------------------------------------------------------------ xmlstring.c
xmlStrdup(s) == s

xmlStrcat(cur, add) ==
  IF add = NULLSTR THEN cur
  ELSE IF cur = NULLSTR THEN add
  ELSE cur \o add

xmlStrlen(s) == IF s = NULLSTR THEN 0 ELSE Len(s)

\* ------------------------------------------------------------ constructors
xmlNewDoc(h, n) ==
  [h EXCEPT ![n] = [ZeroNode EXCEPT !.st = "live", !.type = "doc", !.doc = n]]

xmlNewNode(h, n, ns, name) ==
  [h EXCEPT ![n] = [ZeroNode EXCEPT !.st = "live", !.type = "elem",
                                    !.name = name, !.ns = ns]]

xmlNewDocNode(h, n, doc, ns, name) == W(xmlNewNode(h, n, ns, name), n, "doc", doc)

xmlNewText(h, n, content) ==
  [h EXCEPT ![n] = [ZeroNode EXCEPT !.st = "live", !.type = "text",
                                    !.name = xmlStringText,
                                    !.content = xmlStrdup(content)]]

xmlNewDocText(h, n, doc, content) == W(xmlNewText(h, n, content), n, "doc", doc)

\* a text node whose name tag the parser set to xmlStringTextNoenc
NewDocTextNoenc(h, n, doc, content) ==
  W(xmlNewDocText(h, n, doc, content), n, "name", xmlStringTextNoenc)

\* xmlNewDocProp with value = NULL
xmlNewDocProp(h, n, doc, name) ==
  [h EXCEPT ![n] = [ZeroNode EXCEPT !.st = "live", !.type = "attr",
                                    !.name = name, !.doc = doc]]

\* ------------------------------------------------------------------ free
\* xmlFree of one structure.  What a later read of the released block finds
\* is not defined: the block either still holds its fields (z = FALSE) or
\* has been cleared by the allocator (z = TRUE).
Release(h, n, z) ==
  IF z THEN [h EXCEPT ![n] = [ZeroNode EXCEPT !.st = "freed"]]
  ELSE W(h, n, "st", "freed")

RECURSIVE xmlFreeNsList(_, _, _)
xmlFreeNsList(h, cur, z) ==
  IF cur = NULL THEN h
  ELSE xmlFreeNsList(Release(h, cur, z), h[cur].next, z)

RECURSIVE xmlFreeNodeList(_, _, _)
RECURSIVE xmlFreePropList(_, _, _)

xmlFreeProp(h, cur, z) ==
  IF cur = NULL THEN h
  ELSE Release(IF h[cur].children # NULL
               THEN xmlFreeNodeList(h, h[cur].children, z) ELSE h,
               cur, z)

xmlFreePropList(h, cur, z) ==
  IF cur = NULL THEN h
  ELSE xmlFreePropList(xmlFreeProp(h, cur, z), h[cur].next, z)

\* the body of the while loop of xmlFreeNodeList for one node; each
\* statement is a map from the heap before it to the heap after it
FreeOneNode(h, cur, z) ==
  LET sChildren(g) == IF g[cur].children # NULL /\ g[cur].type # "entref"
                      THEN xmlFreeNodeList(g, g[cur].children, z) ELSE g
      sProperties(g) == IF g[cur].type = "elem" /\ g[cur].properties # NULL
                        THEN xmlFreePropList(g, g[cur].properties, z) ELSE g
      sNsDef(g) == IF g[cur].type = "elem" /\ g[cur].nsDef # NULL
                   THEN xmlFreeNsList(g, g[cur].nsDef, z) ELSE g
  IN Release(sNsDef(sProperties(sChildren(h))), cur, z)

xmlFreeNodeList(h, cur, z) ==
  IF cur = NULL THEN h
  ELSE IF h[cur].type = "ns" THEN xmlFreeNsList(h, cur, z)
  ELSE xmlFreeNodeList(FreeOneNode(h, cur, z), h[cur].next, z)

xmlFreeNode(h, cur, z) ==
  IF cur = NULL THEN h
  ELSE IF h[cur].type = "ns" THEN Release(h, cur, z)
  ELSE IF h[cur].type = "attr" THEN xmlFreeProp(h, cur, z)
  ELSE FreeOneNode(h, cur, z)

\* ---------------------------------------------------------------- unlink
\* a variant that does not repair the parent's last pointer
xmlUnlinkNode_KeepLast(h, cur) ==
  IF cur = NULL THEN h
  ELSE
    LET parent == h[cur].parent
        doc == h[cur].doc
        sInt(g) == IF g[doc].intSubset = cur THEN W(g, doc, "intSubset", NULL) ELSE g
        sExt(g) == IF g[doc].extSubset = cur THEN W(g, doc, "extSubset", NULL) ELSE g
        sDtd(g) == IF g[cur].type = "dtd" /\ doc # NULL THEN sExt(sInt(g)) ELSE g
        sProperties(g) == IF g[parent].properties = cur
                          THEN W(g, parent, "properties", g[cur].next) ELSE g
        sChildren(g) == IF g[parent].children = cur
                        THEN W(g, parent, "children", g[cur].next) ELSE g
        sParent(g) == IF parent # NULL
                      THEN W(IF g[cur].type = "attr" THEN sProperties(g)
                             ELSE sChildren(g),
                             cur, "parent", NULL)
                      ELSE g
        sNextPrev(g) == IF g[cur].next # NULL
                        THEN W(g, g[cur].next, "prev", g[cur].prev) ELSE g
        sPrevNext(g) == IF g[cur].prev # NULL
                        THEN W(g, g[cur].prev, "next", g[cur].next) ELSE g
        sClear(g) == W(W(g, cur, "next", NULL), cur, "prev", NULL)
    IN sClear(sPrevNext(sNextPrev(sParent(sDtd(h)))))

xmlUnlinkNode(h, cur) ==
  IF cur = NULL THEN h
  ELSE
    LET parent == h[cur].parent
        doc == h[cur].doc
        sInt(g) == IF g[doc].intSubset = cur THEN W(g, doc, "intSubset", NULL) ELSE g
        sExt(g) == IF g[doc].extSubset = cur THEN W(g, doc, "extSubset", NULL) ELSE g
        sDtd(g) == IF g[cur].type = "dtd" /\ doc # NULL THEN sExt(sInt(g)) ELSE g
        sProperties(g) == IF g[parent].properties = cur
                          THEN W(g, parent, "properties", g[cur].next) ELSE g
        sChildren(g) == IF g[parent].children = cur
                        THEN W(g, parent, "children", g[cur].next) ELSE g
        sLast(g) == IF g[parent].last = cur
                    THEN W(g, parent, "last", g[cur].prev) ELSE g
        sParent(g) == IF parent # NULL
                      THEN W(IF g[cur].type = "attr" THEN sProperties(g)
                             ELSE sLast(sChildren(g)),
                             cur, "parent", NULL)
                      ELSE g
        sNextPrev(g) == IF g[cur].next # NULL
                        THEN W(g, g[cur].next, "prev", g[cur].prev) ELSE g
        sPrevNext(g) == IF g[cur].prev # NULL
                        THEN W(g, g[cur].prev, "next", g[cur].next) ELSE g
        sClear(g) == W(W(g, cur, "next", NULL), cur, "prev", NULL)
    IN sClear(sPrevNext(sNextPrev(sParent(sDtd(h)))))

\* ------------------------------------------------------- document pointers
RECURSIVE xmlSetTreeDoc(_, _, _)
RECURSIVE xmlSetListDoc(_, _, _)
RECURSIVE SetPropListDoc(_, _, _)

\* the while loop over tree->properties inside xmlSetTreeDoc
SetPropListDoc(h, prop, doc) ==
  IF prop = NULL THEN h
  ELSE LET sDoc(g) == W(g, prop, "doc", doc)
           sValue(g) == xmlSetListDoc(g, g[prop].children, doc)
           sRest(g) == SetPropListDoc(g, g[prop].next, doc)
       IN sRest(sValue(sDoc(h)))

xmlSetTreeDoc(h, tree, doc) ==
  IF tree = NULL THEN h
  ELSE IF h[tree].doc # doc
  THEN LET sProperties(g) == IF g[tree].type = "elem"
                             THEN SetPropListDoc(g, g[tree].properties, doc) ELSE g
           sChildren(g) == IF g[tree].children # NULL
                           THEN xmlSetListDoc(g, g[tree].children, doc) ELSE g
       IN W(sChildren(sProperties(h)), tree, "doc", doc)
  ELSE h

xmlSetListDoc(h, list, doc) ==
  IF list = NULL THEN h
  ELSE LET sTree(g) == IF g[list].doc # doc THEN xmlSetTreeDoc(g, list, doc) ELSE g
           sRest(g) == xmlSetListDoc(g, g[list].next, doc)
       IN sRest(sTree(h))

\* ---------------------------------------------------------------- content
\* the kinds whose value is their content field (tree.c:5739-5744)
ContentKinds == {"text", "cdata", "entref", "entity", "pi", "comment"}

\* xmlNodeSetContent on a node of these kinds; the insertion functions pass
\* it text nodes
xmlNodeSetContent(h, cur, content, z) ==
  IF cur = NULL THEN h
  ELSE IF h[cur].type \in ContentKinds
  THEN LET sChildren(g) == IF g[cur].children # NULL
                           THEN xmlFreeNodeList(g, g[cur].children, z) ELSE g
           sClear(g) == W(W(g, cur, "last", NULL), cur, "children", NULL)
           sContent(g) == W(g, cur, "content",
                            IF content # NULLSTR THEN xmlStrdup(content) ELSE NULLSTR)
       IN sContent(sClear(sChildren(h)))
  ELSE h

\* a variant that overwrites the content instead of appending to it
xmlNodeAddContentLen_Overwrite(h, cur, content, len) ==
  IF cur = NULL THEN h
  ELSE IF len <= 0 THEN h
  ELSE IF h[cur].type = "text"
  THEN (IF content # NULLSTR THEN W(h, cur, "content", content) ELSE h)
  ELSE h

\* xmlNodeAddContentLen on a leaf node: cur->content = xmlStrncat(...)
xmlNodeAddContentLen(h, cur, content, len) ==
  IF cur = NULL THEN h
  ELSE IF len <= 0 THEN h
  ELSE IF h[cur].type = "text"
  THEN (IF content # NULLSTR
        THEN W(h, cur, "content", xmlStrcat(h[cur].content, content))
        ELSE h)
  ELSE h

xmlNodeAddContent(h, cur, content) ==
  IF cur = NULL THEN h
  ELSE IF content = NULLSTR THEN h
  ELSE xmlNodeAddContentLen(h, cur, content, xmlStrlen(content))

\* ------------------------------------------------------ attribute lookup
\* the scan of node->properties; no DTD is attached to the documents of the
\* model, so the default-declaration lookup finds nothing
RECURSIVE ScanProps(_, _, _, _, _)
ScanProps(h, prop, name, useNs, nameSpace) ==
  IF prop = NULL THEN NULL
  ELSE IF h[prop].name = name
          /\ (~useNs
              \/ (h[prop].ns # NULL /\ h[h[prop].ns].href = nameSpace)
              \/ (h[prop].ns = NULL /\ nameSpace = NULLSTR))
  THEN prop
  ELSE ScanProps(h, h[prop].next, name, useNs, nameSpace)

xmlHasProp(h, node, name) ==
  IF node = NULL THEN NULL
  ELSE ScanProps(h, h[node].properties, name, FALSE, NULLSTR)

xmlHasNsProp(h, node, name, nameSpace) ==
  IF node = NULL THEN NULL
  ELSE ScanProps(h, h[node].properties, name, TRUE, nameSpace)

\* -------------------------------------------------------------- insertion
\* result of a call: the heap it leaves and the pointer it returns
R(h, ret) == [h |-> h, ret |-> ret]

\* while (n->next != NULL) n = n->next;  -1 when the walk does not end
RECURSIVE LastOfChain(_, _, _)
LastOfChain(h, n, fuel) ==
  IF h[n].next = NULL THEN n
  ELSE IF fuel = 0 THEN -1
  ELSE LastOfChain(h, h[n].next, fuel - 1)

\* the attribute branch of xmlAddChild (tree.c:3600-3629)
AddChildAttr(h, parent, cur, z) ==
  IF h[parent].properties = NULL
  THEN W(h, parent, "properties", cur)
  ELSE LET found == IF h[cur].ns = NULL
                    THEN xmlHasProp(h, parent, h[cur].name)
                    ELSE xmlHasNsProp(h, parent, h[cur].name, h[h[cur].ns].href)
           sDestroy(g) == IF found # NULL /\ found # cur
                          THEN xmlFreeProp(g, found, z) ELSE g
           sAppend(g, lastattr) == W(W(g, lastattr, "next", cur), cur, "prev", lastattr)
           sFindEnd(g) == sAppend(g, LastOfChain(g, g[parent].properties, NumNodes))
       IN sFindEnd(sDestroy(h))

\* the element branch of xmlAddChild (tree.c:3630-3644)
AddChildNode(h, parent, cur) ==
  IF h[parent].children = NULL
  THEN W(W(h, parent, "children", cur), parent, "last", cur)
  ELSE LET prev == h[parent].last
           sPrevNext(g) == W(g, prev, "next", cur)
           sPrev(g) == W(g, cur, "prev", prev)
           sLast(g) == W(g, parent, "last", cur)
       IN sLast(sPrev(sPrevNext(h)))

\* xmlAddChild past the two text merges (tree.c:3574-3645)
AddChildLink(h, parent, cur, z) ==
  LET prev == h[cur].parent
      sParent(g) == W(g, cur, "parent", parent)
      sDoc(g) == IF g[cur].doc # g[parent].doc
                 THEN xmlSetTreeDoc(g, cur, g[parent].doc) ELSE g
      sRest(g) ==
        IF prev = parent THEN R(g, cur)
        ELSE IF g[parent].type = "text" /\ g[parent].content # NULLSTR
                /\ parent # cur
        THEN R(xmlFreeNode(xmlNodeAddContent(g, parent, g[cur].content), cur, z),
               parent)
        ELSE IF g[cur].type = "attr"
        THEN R(AddChildAttr(g, parent, cur, z), cur)
        ELSE R(AddChildNode(g, parent, cur), cur)
  IN sRest(sDoc(sParent(h)))

xmlAddChild(h, parent, cur, z) ==
  IF parent = NULL \/ cur = NULL THEN R(h, NULL)
  ELSE IF h[cur].type = "text" /\ h[parent].type = "text"
          /\ h[parent].content # NULLSTR /\ h[parent].name = h[cur].name
          /\ parent # cur
  THEN R(xmlFreeNode(xmlNodeAddContent(h, parent, h[cur].content), cur, z), parent)
  ELSE IF h[cur].type = "text" /\ h[parent].last # NULL
          /\ h[h[parent].last].type = "text"
          /\ h[h[parent].last].name = h[cur].name
          /\ h[parent].last # cur
  THEN R(xmlFreeNode(xmlNodeAddContent(h, h[parent].last, h[cur].content), cur, z),
         h[parent].last)
  ELSE AddChildLink(h, parent, cur, z)

\* the loop of xmlAddChildList over the nodes of the list but the last
\* (tree.c:3498-3506); the result is the heap and the last node, or ret = -1
\* when the list is circular and the loop does not end
RECURSIVE AddChildListLoop(_, _, _, _)
AddChildListLoop(h, parent, cur, fuel) ==
  IF h[cur].next = NULL THEN R(h, cur)
  ELSE IF fuel = 0 THEN R(h, -1)
  ELSE LET sParent(g) == W(g, cur, "parent", parent)
           sDoc(g) == IF g[cur].doc # g[parent].doc
                      THEN xmlSetTreeDoc(g, cur, g[parent].doc) ELSE g
           sRest(g) == AddChildListLoop(g, parent, g[cur].next, fuel - 1)
       IN sRest(sDoc(sParent(h)))

\* the tail of xmlAddChildList once the first node is joined (3498-3511)
AddChildListTail(h, parent, cur) ==
  LET sParent(g, c) == W(g, c, "parent", parent)
      sDoc(g, c) == W(g, c, "doc", g[parent].doc)
      sLast(g, c) == W(g, parent, "last", c)
      sEnd(r) == IF r.ret = -1 THEN r
                 ELSE R(sLast(sDoc(sParent(r.h, r.ret), r.ret), r.ret), r.ret)
  IN sEnd(AddChildListLoop(h, parent, cur, NumNodes))

\* the text merge of xmlAddChildList when more nodes follow cur
\* (tree.c:3472-3482)
AddChildListMerged(h, parent, cur, z) ==
  LET nxt == h[cur].next
      sFree(g) == xmlFreeNode(g, cur, z)
      sLink(g, prev) == W(W(g, prev, "next", nxt), nxt, "prev", prev)
      sJoin(g) == sLink(g, g[parent].last)
  IN AddChildListTail(sJoin(sFree(h)), parent, nxt)

xmlAddChildList(h, parent, cur, z) ==
  IF parent = NULL \/ cur = NULL THEN R(h, NULL)
  ELSE IF h[parent].children = NULL
  THEN AddChildListTail(W(h, parent, "children", cur), parent, cur)
  ELSE IF h[cur].type = "text" /\ h[h[parent].last].type = "text"
          /\ h[cur].name = h[h[parent].last].name
  THEN LET sAdd(g) == xmlNodeAddContent(g, g[parent].last, g[cur].content)
           sRest(g) == IF g[cur].next = NULL
                       THEN R(xmlFreeNode(g, cur, z), g[parent].last)
                       ELSE AddChildListMerged(g, parent, cur, z)
       IN sRest(sAdd(h))
  ELSE LET prev == h[parent].last
           sPrevNext(g) == W(g, prev, "next", cur)
           sPrev(g) == W(g, cur, "prev", prev)
       IN AddChildListTail(sPrev(sPrevNext(h)), parent, cur)

\* the destruction of a same-named attribute in xmlAddNextSibling and
\* xmlAddPrevSibling (tree.c:3209-3223, 3299-3313)
DestroySameAttr(h, cur, elem, z) ==
  LET attr == IF h[elem].ns = NULL
              THEN xmlHasProp(h, h[cur].parent, h[elem].name)
              ELSE xmlHasNsProp(h, h[cur].parent, h[elem].name, h[h[elem].ns].href)
  IN IF attr # NULL /\ attr # elem THEN xmlFreeProp(h, attr, z) ELSE h

\* the splice of xmlAddNextSibling (tree.c:3225-3237)
SpliceNext(h, cur, elem) ==
  LET sDoc(g) == IF g[elem].doc # g[cur].doc
                 THEN xmlSetTreeDoc(g, elem, g[cur].doc) ELSE g
      sParent(g) == W(g, elem, "parent", g[cur].parent)
      sPrev(g) == W(g, elem, "prev", cur)
      sNext(g) == W(g, elem, "next", g[cur].next)
      sCurNext(g) == W(g, cur, "next", elem)
      sNextPrev(g) == IF g[elem].next # NULL
                      THEN W(g, g[elem].next, "prev", elem) ELSE g
      sLast(g) == IF g[elem].parent # NULL /\ g[g[elem].parent].last = cur
                     /\ g[elem].type # "attr"
                  THEN W(g, g[elem].parent, "last", elem)
                  ELSE g
  IN sLast(sNextPrev(sCurNext(sNext(sPrev(sParent(sDoc(h)))))))

\* xmlAddNextSibling once elem is unlinked (tree.c:3188-3238)
AddNextSiblingLink(h, cur, elem, z) ==
  IF h[elem].type = "text" /\ h[cur].type = "text"
  THEN R(xmlFreeNode(xmlNodeAddContent(h, cur, h[elem].content), elem, z), cur)
  ELSE IF h[elem].type = "text" /\ h[cur].next # NULL
          /\ h[h[cur].next].type = "text"
          /\ h[cur].name = h[h[cur].next].name
  THEN LET tmp == xmlStrcat(xmlStrdup(h[elem].content), h[h[cur].next].content)
           sSet(g) == xmlNodeSetContent(g, g[cur].next, tmp, z)
           sFree(g) == R(xmlFreeNode(g, elem, z), g[cur].next)
       IN sFree(sSet(h))
  ELSE IF h[elem].type = "attr"
  THEN R(SpliceNext(DestroySameAttr(h, cur, elem, z), cur, elem), elem)
  ELSE R(SpliceNext(h, cur, elem), elem)

xmlAddNextSibling(h, cur, elem, z) ==
  IF cur = NULL \/ elem = NULL THEN R(h, NULL)
  ELSE AddNextSiblingLink(xmlUnlinkNode(h, elem), cur, elem, z)

\* the splice of xmlAddPrevSibling (tree.c:3315-3342)
SplicePrev(h, cur, elem) ==
  LET sDoc(g) == IF g[elem].doc # g[cur].doc
                 THEN xmlSetTreeDoc(g, elem, g[cur].doc) ELSE g
      sParent(g) == W(g, elem, "parent", g[cur].parent)
      sNext(g) == W(g, elem, "next", cur)
      sPrev(g) == W(g, elem, "prev", g[cur].prev)
      sCurPrev(g) == W(g, cur, "prev", elem)
      sPrevNext(g) == IF g[elem].prev # NULL
                      THEN W(g, g[elem].prev, "next", elem) ELSE g
      sAnchor(g, p) ==
        IF p # NULL
        THEN IF g[elem].type = "attr"
             THEN (IF g[p].properties = cur THEN W(g, p, "properties", elem) ELSE g)
             ELSE (IF g[p].children = cur THEN W(g, p, "children", elem) ELSE g)
        ELSE g
      sFirst(g) == sAnchor(g, g[elem].parent)
  IN sFirst(sPrevNext(sCurPrev(sPrev(sNext(sParent(sDoc(h)))))))

\* xmlAddPrevSibling once elem is unlinked (tree.c:3278-3343)
AddPrevSiblingLink(h, cur, elem, z) ==
  IF h[elem].type = "text" /\ h[cur].type = "text"
  THEN LET tmp == xmlStrcat(xmlStrdup(h[elem].content), h[cur].content)
       IN R(xmlFreeNode(xmlNodeSetContent(h, cur, tmp, z), elem, z), cur)
  ELSE IF h[elem].type = "text" /\ h[cur].prev # NULL
          /\ h[h[cur].prev].type = "text"
          /\ h[cur].name = h[h[cur].prev].name
  THEN R(xmlFreeNode(xmlNodeAddContent(h, h[cur].prev, h[elem].content), elem, z),
         h[cur].prev)
  ELSE IF h[elem].type = "attr"
  THEN R(SplicePrev(DestroySameAttr(h, cur, elem, z), cur, elem), elem)
  ELSE R(SplicePrev(h, cur, elem), elem)

xmlAddPrevSibling(h, cur, elem, z) ==
  IF cur = NULL \/ elem = NULL THEN R(h, NULL)
  ELSE AddPrevSiblingLink(xmlUnlinkNode(h, elem), cur, elem, z)

\* xmlAddSibling once the end of the list is found and elem is unlinked
\* (tree.c:3388-3419)
AddSiblingLink(h, cur, elem, z) ==
  IF h[cur].type = "text" /\ h[elem].type = "text"
     /\ h[cur].name = h[elem].name
  THEN R(xmlFreeNode(xmlNodeAddContent(h, cur, h[elem].content), elem, z), cur)
  ELSE LET sDoc(g) == IF g[elem].doc # g[cur].doc
                      THEN xmlSetTreeDoc(g, elem, g[cur].doc) ELSE g
           sWire(g, parent) ==
             W(W(W(W(g, elem, "prev", cur), elem, "next", NULL),
                 elem, "parent", parent), cur, "next", elem)
           sLast(g, parent) == IF parent # NULL THEN W(g, parent, "last", elem) ELSE g
           sBoth(g, parent) == sLast(sWire(g, parent), parent)
           sRest(g) == R(sBoth(g, g[cur].parent), elem)
       IN sRest(sDoc(h))

xmlAddSibling(h, cur0, elem, z) ==
  IF cur0 = NULL \/ elem = NULL THEN R(h, NULL)
  ELSE
    LET p0 == h[cur0].parent
        cur == IF p0 # NULL /\ h[p0].children # NULL /\ h[p0].last # NULL
                  /\ h[h[p0].last].next = NULL
               THEN h[p0].last
               ELSE LastOfChain(h, cur0, NumNodes)
    IN IF cur = -1 THEN R(h, -1)
       ELSE AddSiblingLink(xmlUnlinkNode(h, elem), cur, elem, z)

xmlTextMerge(h, first, second, z) ==
  IF first = NULL THEN R(h, second)
  ELSE IF second = NULL THEN R(h, first)
  ELSE IF h[first].type # "text" THEN R(h, first)
  ELSE IF h[second].type # "text" THEN R(h, first)
  ELSE IF h[second].name # h[first].name THEN R(h, first)
  ELSE R(xmlFreeNode(xmlUnlinkNode(xmlNodeAddContent(h, first, h[second].content),
                                   second),
                     second, z),
         first)

\* xmlReplaceNode past its argument checks (tree.c:3925-3948)
\* a variant that leaves the parent's last pointer on old
ReplaceLink_NoLast(h, old, cur) ==
  LET sDoc(g) == W(g, cur, "doc", g[old].doc)
      sParent(g) == W(g, cur, "parent", g[old].parent)
      sNext(g) == W(g, cur, "next", g[old].next)
      sNextPrev(g) == IF g[cur].next # NULL THEN W(g, g[cur].next, "prev", cur) ELSE g
      sPrev(g) == W(g, cur, "prev", g[old].prev)
      sPrevNext(g) == IF g[cur].prev # NULL THEN W(g, g[cur].prev, "next", cur) ELSE g
      sProperties(g, p) == IF g[p].properties = old THEN W(g, p, "properties", cur) ELSE g
      sChildren(g, p) == IF g[p].children = old THEN W(g, p, "children", cur) ELSE g
      sAnchor(g, p) == IF p = NULL THEN g
                       ELSE IF g[cur].type = "attr" THEN sProperties(g, p)
                       ELSE sChildren(g, p)
      sFirst(g) == sAnchor(g, g[cur].parent)
      sOld(g) == W(W(W(g, old, "next", NULL), old, "prev", NULL), old, "parent", NULL)
  IN sOld(sFirst(sPrevNext(sPrev(sNextPrev(sNext(sParent(sDoc(h))))))))

ReplaceLink(h, old, cur) ==
  LET sDoc(g) == W(g, cur, "doc", g[old].doc)
      sParent(g) == W(g, cur, "parent", g[old].parent)
      sNext(g) == W(g, cur, "next", g[old].next)
      sNextPrev(g) == IF g[cur].next # NULL THEN W(g, g[cur].next, "prev", cur) ELSE g
      sPrev(g) == W(g, cur, "prev", g[old].prev)
      sPrevNext(g) == IF g[cur].prev # NULL THEN W(g, g[cur].prev, "next", cur) ELSE g
      sProperties(g, p) == IF g[p].properties = old THEN W(g, p, "properties", cur) ELSE g
      sChildren(g, p) == IF g[p].children = old THEN W(g, p, "children", cur) ELSE g
      sLast(g, p) == IF g[p].last = old THEN W(g, p, "last", cur) ELSE g
      sAnchor(g, p) == IF p = NULL THEN g
                       ELSE IF g[cur].type = "attr" THEN sProperties(g, p)
                       ELSE sLast(sChildren(g, p), p)
      sFirst(g) == sAnchor(g, g[cur].parent)
      sOld(g) == W(W(W(g, old, "next", NULL), old, "prev", NULL), old, "parent", NULL)
  IN sOld(sFirst(sPrevNext(sPrev(sNextPrev(sNext(sParent(sDoc(h))))))))

\* a variant in which a NULL cur leaves old where it is
xmlReplaceNode_KeepOld(h, old, cur) ==
  IF old = cur THEN R(h, NULL)
  ELSE IF old = NULL \/ h[old].parent = NULL THEN R(h, NULL)
  ELSE IF cur = NULL THEN R(h, old)
  ELSE IF h[old].type = "attr" /\ h[cur].type # "attr" THEN R(h, old)
  ELSE IF h[cur].type = "attr" /\ h[old].type # "attr" THEN R(h, old)
  ELSE R(ReplaceLink(xmlUnlinkNode(h, cur), old, cur), old)

\* a variant without the two tests on the kinds of old and cur
xmlReplaceNode_AcrossKinds(h, old, cur) ==
  IF old = cur THEN R(h, NULL)
  ELSE IF old = NULL \/ h[old].parent = NULL THEN R(h, NULL)
  ELSE IF cur = NULL THEN R(xmlUnlinkNode(h, old), old)
  ELSE R(ReplaceLink(xmlUnlinkNode(h, cur), old, cur), old)

xmlReplaceNode(h, old, cur) ==
  IF old = cur THEN R(h, NULL)
  ELSE IF old = NULL \/ h[old].parent = NULL THEN R(h, NULL)
  ELSE IF cur = NULL THEN R(xmlUnlinkNode(h, old), old)
  ELSE IF h[old].type = "attr" /\ h[cur].type # "attr" THEN R(h, old)
  ELSE IF h[cur].type = "attr" /\ h[old].type # "attr" THEN R(h, old)
  ELSE R(ReplaceLink(xmlUnlinkNode(h, cur), old, cur), old)

\* the loop of xmlDocGetRootElement and xmlDocSetRootElement: the first
\* element of a sibling chain
RECURSIVE FirstElement(_, _)
FirstElement(h, n) ==
  IF n = NULL THEN NULL
  ELSE IF h[n].type = "elem" THEN n
  ELSE FirstElement(h, h[n].next)

xmlDocGetRootElement(h, doc) ==
  IF doc = NULL THEN NULL ELSE FirstElement(h, h[doc].children)

\* a variant that does not retarget root to the document
xmlDocSetRootElement_KeepDoc(h, doc, root, z) ==
  IF doc = NULL \/ root = NULL THEN R(h, NULL)
  ELSE
    LET sUnlink(g) == xmlUnlinkNode(g, root)
        sParent(g) == W(g, root, "parent", doc)
        sAppend(r, old) == R(r.h, IF r.ret = -1 THEN -1 ELSE old)
        sPlace(g, old) ==
          IF old = NULL
          THEN IF g[doc].children = NULL
               THEN R(W(W(g, doc, "children", root), doc, "last", root), old)
               ELSE sAppend(xmlAddSibling(g, g[doc].children, root, z), old)
          ELSE R(xmlReplaceNode(g, old, root).h, old)
        sRest(g) == sPlace(g, FirstElement(g, g[doc].children))
    IN sRest(sParent(sUnlink(h)))

xmlDocSetRootElement(h, doc, root, z) ==
  IF doc = NULL \/ root = NULL THEN R(h, NULL)
  ELSE
    LET sUnlink(g) == xmlUnlinkNode(g, root)
        sDoc(g) == xmlSetTreeDoc(g, root, doc)
        sParent(g) == W(g, root, "parent", doc)
        sAppend(r, old) == R(r.h, IF r.ret = -1 THEN -1 ELSE old)
        sPlace(g, old) ==
          IF old = NULL
          THEN IF g[doc].children = NULL
               THEN R(W(W(g, doc, "children", root), doc, "last", root), old)
               ELSE sAppend(xmlAddSibling(g, g[doc].children, root, z), old)
          ELSE R(xmlReplaceNode(g, old, root).h, old)
        sRest(g) == sPlace(g, FirstElement(g, g[doc].children))
    IN sRest(sParent(sDoc(sUnlink(h))))

\* ------------------------------------------------------------- namespaces
\* A namespace declaration is a block of type "ns" holding prefix, href and
\* next; an element's nsDef points at the first declaration it holds.

\* xmlStrEqual: equal pointers (two NULLs included) or equal characters
xmlStrEqual(a, b) == a = b

\* memset(cur, 0, sizeof(xmlNs)) and the fields xmlNewNs fills
NewNsBlock(h, cur, href, prefix) ==
  [h EXCEPT ![cur] = [ZeroNode EXCEPT
     !.st = "live", !.type = "ns",
     !.href = IF href # NULLSTR THEN xmlStrdup(href) ELSE NULLSTR,
     !.prefix = IF prefix # NULLSTR THEN xmlStrdup(prefix) ELSE NULLSTR]]

xmlSetNs(h, node, ns) == IF node = NULL THEN h ELSE W(h, node, "ns", ns)

xmlFreeNs(h, cur, z) == IF cur = NULL THEN h ELSE Release(h, cur, z)

\* the walk of node->nsDef in xmlNewNs (tree.c:785-807): cur is appended
\* after the last declaration, or released when its prefix is already there
RECURSIVE NewNsAppend(_, _, _)
NewNsAppend(h, prev, cur) ==
  IF (h[prev].prefix = NULLSTR /\ h[cur].prefix = NULLSTR)
     \/ xmlStrEqual(h[prev].prefix, h[cur].prefix)
  THEN R(xmlFreeNs(h, cur, TRUE), NULL)
  ELSE IF h[prev].next = NULL THEN R(W(h, prev, "next", cur), cur)
  ELSE NewNsAppend(h, h[prev].next, cur)

xmlNewNs(h, node, href, prefix) ==
  IF node # NULL /\ h[node].type # "elem" THEN R(h, NULL)
  ELSE IF prefix # NULLSTR /\ xmlStrEqual(prefix, XmlPrefix) THEN R(h, NULL)
  ELSE LET cur == Malloc(h)
           sLink(g) == IF node = NULL THEN R(g, cur)
                       ELSE IF g[node].nsDef = NULL
                       THEN R(W(g, node, "nsDef", cur), cur)
                       ELSE NewNsAppend(g, g[node].nsDef, cur)
       IN IF cur = NULL THEN R(h, NULL)
          ELSE sLink(NewNsBlock(h, cur, href, prefix))

\* the reserved declaration handed out by xmlSearchNs for the prefix "xml"
\* and by xmlSearchNsByHref for XML_XML_NAMESPACE (tree.c:6093-6135,
\* 6241-6281); without a document and on a node that is no element the code
\* reads doc->oldNs through the null pointer and the call does not return
XmlNsFor(h, doc, node) ==
  IF doc = NULL /\ h[node].type = "elem"
  THEN LET cur == Malloc(h)
           sFill(g) == NewNsBlock(g, cur, XML_XML_NAMESPACE, XmlPrefix)
           sNext(g) == W(g, cur, "next", g[node].nsDef)
           sNsDef(g) == W(g, node, "nsDef", cur)
       IN IF cur = NULL THEN R(h, NULL) ELSE R(sNsDef(sNext(sFill(h))), cur)
  ELSE IF doc = NULL THEN R(h, -1)
  ELSE IF h[doc].oldNs = NULL
  THEN LET cur == Malloc(h)
       IN IF cur = NULL THEN R(h, NULL)
          ELSE R(W(NewNsBlock(h, cur, XML_XML_NAMESPACE, XmlPrefix), doc, "oldNs", cur),
                 cur)
  ELSE R(h, h[doc].oldNs)

\* a variant of the test that accepts a declaration whatever its prefix
NsMatch_AnyPrefix(h, cur, nameSpace) ==
  h[cur].href # NULLSTR

\* the test xmlSearchNs applies to a declaration (tree.c:6147-6153)
NsMatch(h, cur, nameSpace) ==
  \/ h[cur].prefix = NULLSTR /\ nameSpace = NULLSTR /\ h[cur].href # NULLSTR
  \/ /\ h[cur].prefix # NULLSTR /\ nameSpace # NULLSTR /\ h[cur].href # NULLSTR
     /\ xmlStrEqual(h[cur].prefix, nameSpace)

RECURSIVE ScanNsDef(_, _, _)
ScanNsDef(h, cur, nameSpace) ==
  IF cur = NULL THEN NULL
  ELSE IF NsMatch(h, cur, nameSpace) THEN cur
  ELSE ScanNsDef(h, h[cur].next, nameSpace)

\* XML_ENTITY_REF_NODE, XML_ENTITY_NODE, XML_ENTITY_DECL
EntityKinds == {"entref", "entity", "entdecl"}

\* a variant of the walk that goes on through entity nodes
RECURSIVE SearchNsWalk_Through(_, _, _, _)
SearchNsWalk_Through(h, orig, node, nameSpace) ==
  IF node = NULL THEN NULL
  ELSE IF h[node].type = "elem"
  THEN LET found == ScanNsDef(h, h[node].nsDef, nameSpace)
       IN IF found # NULL THEN found
          ELSE IF orig # node /\ h[node].ns # NULL
                  /\ NsMatch(h, h[node].ns, nameSpace)
          THEN h[node].ns
          ELSE SearchNsWalk_Through(h, orig, h[node].parent, nameSpace)
  ELSE SearchNsWalk_Through(h, orig, h[node].parent, nameSpace)

\* the ancestor walk of xmlSearchNs (tree.c:6136-6172)
RECURSIVE SearchNsWalk(_, _, _, _)
SearchNsWalk(h, orig, node, nameSpace) ==
  IF node = NULL THEN NULL
  ELSE IF h[node].type \in EntityKinds THEN NULL
  ELSE IF h[node].type = "elem"
  THEN LET found == ScanNsDef(h, h[node].nsDef, nameSpace)
       IN IF found # NULL THEN found
          ELSE IF orig # node /\ h[node].ns # NULL
                  /\ NsMatch(h, h[node].ns, nameSpace)
          THEN h[node].ns
          ELSE SearchNsWalk(h, orig, h[node].parent, nameSpace)
  ELSE SearchNsWalk(h, orig, h[node].parent, nameSpace)

xmlSearchNs(h, doc, node, nameSpace) ==
  IF node = NULL THEN R(h, NULL)
  ELSE IF nameSpace # NULLSTR /\ xmlStrEqual(nameSpace, XmlPrefix)
  THEN XmlNsFor(h, doc, node)
  ELSE R(h, SearchNsWalk(h, node, node, nameSpace))

\* the scan of one nsDef list in xmlNsInScope (tree.c:6201-6213)
RECURSIVE DeclaresPrefix(_, _, _)
DeclaresPrefix(h, tst, prefix) ==
  IF tst = NULL THEN FALSE
  ELSE IF h[tst].prefix = NULLSTR /\ prefix = NULLSTR THEN TRUE
  ELSE IF h[tst].prefix # NULLSTR /\ prefix # NULLSTR
          /\ xmlStrEqual(h[tst].prefix, prefix) THEN TRUE
  ELSE DeclaresPrefix(h, h[tst].next, prefix)

RECURSIVE xmlNsInScope(_, _, _, _)
xmlNsInScope(h, node, ancestor, prefix) ==
  IF node = NULL \/ node = ancestor
  THEN (IF node # ancestor THEN -1 ELSE 1)
  ELSE IF h[node].type \in EntityKinds THEN -1
  ELSE IF h[node].type = "elem" /\ DeclaresPrefix(h, h[node].nsDef, prefix)
  THEN 0
  ELSE xmlNsInScope(h, h[node].parent, ancestor, prefix)

\* a variant of the test that does not ask whether the prefix is shadowed
HrefMatch_Unscoped(h, orig, node, cur, href, is_attr) ==
  /\ h[cur].href # NULLSTR /\ href # NULLSTR /\ xmlStrEqual(h[cur].href, href)
  /\ (~is_attr) \/ h[cur].prefix # NULLSTR

\* the test xmlSearchNsByHref applies to a declaration (tree.c:6295-6301)
HrefMatch(h, orig, node, cur, href, is_attr) ==
  /\ h[cur].href # NULLSTR /\ href # NULLSTR /\ xmlStrEqual(h[cur].href, href)
  /\ (~is_attr) \/ h[cur].prefix # NULLSTR
  /\ xmlNsInScope(h, orig, node, h[cur].prefix) = 1

RECURSIVE ScanNsDefHref(_, _, _, _, _, _)
ScanNsDefHref(h, orig, node, cur, href, is_attr) ==
  IF cur = NULL THEN NULL
  ELSE IF HrefMatch(h, orig, node, cur, href, is_attr) THEN cur
  ELSE ScanNsDefHref(h, orig, node, h[cur].next, href, is_attr)

\* the ancestor walk of xmlSearchNsByHref (tree.c:6283-6323)
RECURSIVE SearchHrefWalk(_, _, _, _, _)
SearchHrefWalk(h, orig, node, href, is_attr) ==
  IF node = NULL THEN NULL
  ELSE IF h[node].type \in EntityKinds THEN NULL
  ELSE IF h[node].type = "elem"
  THEN LET found == ScanNsDefHref(h, orig, node, h[node].nsDef, href, is_attr)
       IN IF found # NULL THEN found
          ELSE IF orig # node /\ h[node].ns # NULL
                  /\ HrefMatch(h, orig, node, h[node].ns, href, is_attr)
          THEN h[node].ns
          ELSE SearchHrefWalk(h, orig, h[node].parent, href, is_attr)
  ELSE SearchHrefWalk(h, orig, h[node].parent, href, is_attr)

xmlSearchNsByHref(h, doc, node, href) ==
  IF node = NULL \/ href = NULLSTR THEN R(h, NULL)
  ELSE IF xmlStrEqual(href, XML_XML_NAMESPACE) THEN XmlNsFor(h, doc, node)
  ELSE R(h, SearchHrefWalk(h, node, node, href, h[node].type = "attr"))

\* ------------------------------------------------------- reconciliation
DigitChars == <<"0", "1", "2", "3", "4", "5", "6", "7", "8", "9">>

\* the characters "%d" prints for a positive counter
RECURSIVE Decimal(_)
Decimal(n) ==
  IF n < 10 THEN <<DigitChars[n + 1]>>
  ELSE Decimal(n \div 10) \o <<DigitChars[(n % 10) + 1]>>

\* the prefix xmlNewReconciliedNs tries first, and the one it tries after
\* the counter-th collision (tree.c:6374-6377, 6384-6388)
FirstPrefix(h, ns) ==
  IF h[ns].prefix = NULLSTR THEN <<"d", "e", "f", "a", "u", "l", "t">>
  ELSE IF Len(h[ns].prefix) > PrefixKeep THEN SubSeq(h[ns].prefix, 1, PrefixKeep)
  ELSE h[ns].prefix

\* the probing loop of xmlNewReconciliedNs and the declaration it creates;
\* def is the call xmlSearchNs(doc, tree, prefix)
RECURSIVE ReconcileProbe(_, _, _, _, _, _)
\* a variant whose first number is 2
ReconcileProbed_FromTwo(def, doc, tree, ns, prefix, counter) ==
  IF def.ret = -1 THEN def
  ELSE IF def.ret = NULL THEN xmlNewNs(def.h, tree, def.h[ns].href, prefix)
  ELSE IF counter > ProbeCap THEN R(def.h, NULL)
  ELSE ReconcileProbe(def.h, doc, tree, ns,
                      FirstPrefix(def.h, ns) \o Decimal(counter + 1), counter + 1)

ReconcileProbed(def, doc, tree, ns, prefix, counter) ==
  IF def.ret = -1 THEN def
  ELSE IF def.ret = NULL THEN xmlNewNs(def.h, tree, def.h[ns].href, prefix)
  ELSE IF counter > ProbeCap THEN R(def.h, NULL)
  ELSE ReconcileProbe(def.h, doc, tree, ns,
                      FirstPrefix(def.h, ns) \o Decimal(counter), counter + 1)

ReconcileProbe(h, doc, tree, ns, prefix, counter) ==
  ReconcileProbed(xmlSearchNs(h, doc, tree, prefix), doc, tree, ns, prefix, counter)

\* what follows def = xmlSearchNsByHref(doc, tree, ns->href) (tree.c:6367-6396)
ReconcileSearched(def, doc, tree, ns) ==
  IF def.ret # NULL THEN def
  ELSE ReconcileProbe(def.h, doc, tree, ns, FirstPrefix(def.h, ns), 1)

xmlNewReconciliedNs(h, doc, tree, ns) ==
  IF tree = NULL THEN R(h, NULL)
  ELSE IF ns = NULL \/ h[ns].type # "ns" THEN R(h, NULL)
  ELSE ReconcileSearched(xmlSearchNsByHref(h, doc, tree, h[ns].href), doc, tree, ns)

\* the state of xmlReconciliateNs's loop: the heap and the oldNs/newNs cache
RS(h, cache) == [h |-> h, cache |-> cache]

\* the cache entries for ns, the first of them being the one the loop takes
CacheHits(cache, ns) == {i \in 1..Len(cache) : cache[i].old = ns}

\* a reference the cache does not hold: n is the call xmlNewReconciliedNs;
\* when it fails the reference stays as it was (tree.c:6475-6504)
ReconcileMiss(s, r, n) ==
  IF r.ret # NULL /\ r.ret # -1
  THEN RS(W(r.h, n, "ns", r.ret), Append(s.cache, [old |-> s.h[n].ns, new |-> r.ret]))
  ELSE RS(r.h, s.cache)

\* the treatment of one ns reference, of the node or of one of its
\* attributes (tree.c:6438-6505, 6513-6581)
ReconcileRef(s, doc, tree, n) ==
  IF s.h[n].ns = NULL THEN s
  ELSE IF CacheHits(s.cache, s.h[n].ns) # {}
  THEN RS(W(s.h, n, "ns",
            s.cache[CHOOSE i \in CacheHits(s.cache, s.h[n].ns) :
                      \A j \in CacheHits(s.cache, s.h[n].ns) : i <= j].new),
          s.cache)
  ELSE ReconcileMiss(s, xmlNewReconciliedNs(s.h, doc, tree, s.h[n].ns), n)

RECURSIVE ReconcileAttrs(_, _, _, _)
ReconcileAttrs(s, doc, tree, attr) ==
  IF attr = NULL THEN s
  ELSE ReconcileAttrs(ReconcileRef(s, doc, tree, attr), doc, tree, s.h[attr].next)

\* the climb to the next unvisited sibling of an ancestor (tree.c:6601-6618)
RECURSIVE ReconcileClimb(_, _, _)
ReconcileClimb(h, tree, node) ==
  IF node = tree THEN NULL
  ELSE LET up == IF h[node].parent # NULL THEN h[node].parent ELSE node
       IN IF up # tree /\ h[up].next # NULL THEN h[up].next
          ELSE IF h[up].parent = NULL THEN NULL
          ELSE ReconcileClimb(h, tree, up)

\* the node the walk visits after node (tree.c:6588-6621)
ReconcileNext(h, tree, node) ==
  IF h[node].children # NULL THEN h[node].children
  ELSE IF node # tree /\ h[node].next # NULL THEN h[node].next
  ELSE IF node # tree THEN ReconcileClimb(h, tree, node)
  ELSE NULL

\* one round of the loop: the node, its attributes, the next node
RECURSIVE ReconcileWalk(_, _, _, _)
ReconcileStep(s, doc, tree, node) ==
  ReconcileWalk(s, doc, tree, ReconcileNext(s.h, tree, node))

ReconcileWalk(s, doc, tree, node) ==
  IF node = NULL THEN s.h
  ELSE ReconcileStep(ReconcileAttrs(ReconcileRef(s, doc, tree, node), doc, tree,
                                    s.h[node].properties),
                     doc, tree, node)

\* the int the function returns is ret; the cache arrays live outside the tree
xmlReconciliateNs(h, doc, tree) ==
  IF tree = NULL \/ h[tree].type # "elem" THEN R(h, -1)
  ELSE IF doc = NULL \/ h[doc].type # "doc" THEN R(h, -1)
  ELSE IF h[tree].doc # doc THEN R(h, -1)
  ELSE R(ReconcileWalk(RS(h, <<>>), doc, tree, tree), 0)

\* ----------------------------------------------------------------- copies
\* n->f = r.ret on the heap the call r left, the call's failure passed on
Assign(r, n, f) == IF r.ret = -1 THEN r ELSE R(W(r.h, n, f, r.ret), n)

xmlCopyNamespace(h, cur) ==
  IF cur = NULL THEN R(h, NULL)
  ELSE xmlNewNs(h, NULL, h[cur].href, h[cur].prefix)

\* the loop of xmlCopyNamespaceList with its variables ret and p; q is the
\* call xmlCopyNamespace(cur)
RECURSIVE CopyNamespaceLoop(_, _, _, _)
CopyNamespaceNext(q, cur, ret, p) ==
  IF p = NULL THEN CopyNamespaceLoop(q.h, q.h[cur].next, q.ret, q.ret)
  ELSE CopyNamespaceLoop(W(q.h, p, "next", q.ret), q.h[cur].next, ret, q.ret)

CopyNamespaceLoop(h, cur, ret, p) ==
  IF cur = NULL THEN R(h, ret)
  ELSE CopyNamespaceNext(xmlCopyNamespace(h, cur), cur, ret, p)

xmlCopyNamespaceList(h, cur) == CopyNamespaceLoop(h, cur, NULL, NULL)

\* while (root->parent != NULL) { pred = root; root = root->parent; }
RECURSIVE TopOf(_, _, _)
TopOf(h, root, pred) ==
  IF h[root].parent = NULL THEN [root |-> root, pred |-> pred]
  ELSE TopOf(h, h[root].parent, root)

RECURSIVE xmlStaticCopyNode(_, _, _, _, _, _)
RECURSIVE xmlStaticCopyNodeList(_, _, _, _, _)

\* if (root == (xmlNodePtr) target->doc) root = pred;
CopyPropRoot(top, doc) == IF top.root = doc THEN top.pred ELSE top.root

\* the namespace of a copied attribute found out of the scope of target
\* (tree.c:4056-4079); ns is the call that searched it in the original tree
CopyPropOuterNs(ns, target, ret) ==
  IF ns.ret = -1 \/ ns.ret = NULL THEN ns
  ELSE Assign(xmlNewNs(ns.h, CopyPropRoot(TopOf(ns.h, target, NULL), ns.h[target].doc),
                       ns.h[ns.ret].href, ns.h[ns.ret].prefix),
              ret, "ns")

\* the choice of ret->ns in xmlCopyProp once ns, the call that searched the
\* prefix from target, is back (tree.c:4054-4100)
CopyPropFound(ns, target, cur, ret) ==
  IF ns.ret = -1 THEN ns
  ELSE IF ns.ret = NULL
  THEN CopyPropOuterNs(xmlSearchNs(ns.h, ns.h[cur].doc, ns.h[cur].parent,
                                   ns.h[ns.h[cur].ns].prefix), target, ret)
  ELSE IF xmlStrEqual(ns.h[ns.ret].href, ns.h[ns.h[cur].ns].href)
  THEN R(W(ns.h, ret, "ns", ns.ret), ret)
  ELSE Assign(xmlNewReconciliedNs(ns.h, ns.h[target].doc, target, ns.h[cur].ns),
              ret, "ns")

CopyPropNs(h, target, cur, ret) ==
  IF h[cur].ns = NULL \/ target = NULL THEN R(W(h, ret, "ns", NULL), ret)
  ELSE CopyPropFound(xmlSearchNs(h, h[target].doc, target, h[h[cur].ns].prefix),
                     target, cur, ret)

\* ret->last after the value nodes were copied (tree.c:4110-4118)
CopyPropLast(r, ret) ==
  IF r.ret = -1 THEN r
  ELSE R(W(r.h, ret, "last", IF r.h[ret].children = NULL THEN NULL
                             ELSE LastOfChain(r.h, r.h[ret].children, NumNodes)),
         ret)

\* the copy of the value nodes of an attribute (tree.c:4105-4119)
CopyPropChildren(r, cur, ret, z) ==
  IF r.ret = -1 THEN r
  ELSE IF r.h[cur].children = NULL THEN R(r.h, ret)
  ELSE CopyPropLast(Assign(xmlStaticCopyNodeList(r.h, r.h[cur].children,
                                                 r.h[ret].doc, ret, z),
                           ret, "children"), ret)

\* ret = xmlNewDocProp(...); ret->parent = target (tree.c:4037-4047)
CopyPropBlock(h, ret, target, cur) ==
  W(xmlNewDocProp(h, ret,
                  IF target # NULL THEN h[target].doc
                  ELSE IF h[cur].parent # NULL THEN h[h[cur].parent].doc
                  ELSE IF h[cur].children # NULL THEN h[h[cur].children].doc
                  ELSE NULL,
                  h[cur].name),
    ret, "parent", target)

\* the documents hold no ID table, so the last part of the function is idle
xmlCopyProp(h, target, cur, z) ==
  IF cur = NULL \/ Malloc(h) = NULL THEN R(h, NULL)
  ELSE CopyPropChildren(CopyPropNs(CopyPropBlock(h, Malloc(h), target, cur),
                                   target, cur, Malloc(h)),
                        cur, Malloc(h), z)

\* the loop of xmlCopyPropList with its variables ret and p; q is the call
\* xmlCopyProp(target, cur)
RECURSIVE CopyPropLoop(_, _, _, _, _, _)
CopyPropNext(q, target, cur, ret, p, z) ==
  IF q.ret = -1 THEN q
  ELSE IF q.ret = NULL THEN R(q.h, NULL)
  ELSE IF p = NULL THEN CopyPropLoop(q.h, target, q.h[cur].next, q.ret, q.ret, z)
  ELSE CopyPropLoop(W(W(q.h, p, "next", q.ret), q.ret, "prev", p),
                    target, q.h[cur].next, ret, q.ret, z)

CopyPropLoop(h, target, cur, ret, p, z) ==
  IF cur = NULL THEN R(h, ret)
  ELSE CopyPropNext(xmlCopyProp(h, target, cur, z), target, cur, ret, p, z)

xmlCopyPropList(h, target, cur, z) == CopyPropLoop(h, target, cur, NULL, NULL, z)

\* the predefined entities (entities.c); NULLSTR for any other name
xmlGetPredefinedEntity(name) ==
  CASE name = <<"l", "t">> -> <<"<">>
    [] name = <<"g", "t">> -> <<">">>
    [] name = <<"a", "m", "p">> -> <<"&">>
    [] name = <<"a", "p", "o", "s">> -> <<"'">>
    [] name = <<"q", "u", "o", "t">> -> <<"\"">>
    [] OTHER -> NULLSTR

\* the entity declarations of a document are blocks of type "entdecl"
\* carrying name, content and children; xmlGetDocEntity (entities.c) looks
\* the name up there and then among the predefined entities. The result
\* tells the declaration found, whether it is a predefined one, and its
\* content.
xmlGetDocEntity(h, doc, name) ==
  LET decls == {n \in Ids : /\ h[n].st = "live" /\ h[n].type = "entdecl"
                            /\ doc # NULL /\ h[n].doc = doc /\ h[n].name = name}
  IN IF decls # {}
     THEN [node |-> CHOOSE n \in decls : TRUE, pre |-> FALSE, found |-> TRUE,
           content |-> h[CHOOSE n \in decls : TRUE].content]
     ELSE [node |-> NULL, pre |-> xmlGetPredefinedEntity(name) # NULLSTR,
           found |-> xmlGetPredefinedEntity(name) # NULLSTR,
           content |-> xmlGetPredefinedEntity(name)]

\* memset and the fields xmlStaticCopyNode fills first (tree.c:4242-4278)
CopyNodeBlock(h, ret, node, doc, parent) ==
  [h EXCEPT ![ret] = [ZeroNode EXCEPT
     !.st = "live", !.type = h[node].type, !.doc = doc, !.parent = parent,
     !.name = h[node].name,
     !.content = IF /\ h[node].type # "elem" /\ h[node].content # NULLSTR
                    /\ h[node].type # "entref"
                 THEN xmlStrdup(h[node].content) ELSE NULLSTR]]

\* the namespace of a copied element defined out of the scope of the new
\* tree (tree.c:4314-4321); ns is the call that searched the original tree
CopyNodeOuterNs(ns, ret) ==
  IF ns.ret = -1 \/ ns.ret = NULL THEN ns
  ELSE Assign(xmlNewNs(ns.h, TopOf(ns.h, ret, NULL).root,
                       ns.h[ns.ret].href, ns.h[ns.ret].prefix), ret, "ns")

\* the choice of ret->ns in xmlStaticCopyNode once ns, the call that
\* searched the prefix from ret, is back (tree.c:4307-4329)
CopyNodeFound(ns, node, ret) ==
  IF ns.ret = -1 THEN ns
  ELSE IF ns.ret = NULL
  THEN CopyNodeOuterNs(xmlSearchNs(ns.h, ns.h[node].doc, node,
                                   ns.h[ns.h[node].ns].prefix), ret)
  ELSE R(W(ns.h, ret, "ns", ns.ret), ret)

CopyNodeNs(h, node, doc, ret) ==
  IF h[node].ns = NULL THEN R(h, ret)
  ELSE CopyNodeFound(xmlSearchNs(h, doc, ret, h[h[node].ns].prefix), node, ret)

\* UPDATE_LAST_CHILD_AND_PARENT(n) (tree.c:110-121)
RECURSIVE UpdateLastLoop(_, _, _)
UpdateLastLoop(h, n, ulccur) ==
  IF h[ulccur].next = NULL
  THEN W(W(h, ulccur, "parent", n), n, "last", ulccur)
  ELSE UpdateLastLoop(W(h, ulccur, "parent", n), n, h[ulccur].next)

UpdateLastChildAndParent(h, n, ulccur) ==
  IF ulccur = NULL THEN W(h, n, "last", NULL)
  ELSE UpdateLastLoop(h, n, ulccur)

\* the steps of an extended copy (tree.c:4299-4355), each taking the
\* state the step before left
CopyNodeNsDef(h, node, ret) ==
  IF h[node].nsDef # NULL
  THEN Assign(xmlCopyNamespaceList(h, h[node].nsDef), ret, "nsDef").h
  ELSE h

CopyNodeProps(r, node, ret, z) ==
  IF r.ret = -1 THEN r
  ELSE IF r.h[node].properties # NULL
  THEN Assign(xmlCopyPropList(r.h, ret, r.h[node].properties, z), ret, "properties")
  ELSE R(r.h, ret)

CopyNodeLast(r, ret) ==
  IF r.ret = -1 THEN r
  ELSE R(UpdateLastChildAndParent(r.h, ret, r.h[ret].children), ret)

\* the copy of an entity reference keeps the declaration of the node when
\* it stays in the document of the node, and takes the one the destination
\* document declares otherwise (tree.c:4333-4350)
CopyNodeEntity(h, node, doc, ret) ==
  LET ent == IF doc = NULL \/ h[node].doc # doc
             THEN xmlGetDocEntity(h, doc, h[ret].name).node
             ELSE h[node].children
  IN W(W(h, ret, "children", ent), ret, "last", ent)

CopyNodeChildren(r, node, doc, ret, extended, z) ==
  IF r.ret = -1 THEN r
  ELSE IF r.h[node].type = "entref" THEN R(CopyNodeEntity(r.h, node, doc, ret), ret)
  ELSE IF r.h[node].children # NULL /\ extended # 2
  THEN CopyNodeLast(Assign(xmlStaticCopyNodeList(r.h, r.h[node].children, doc, ret, z),
                           ret, "children"), ret)
  ELSE R(r.h, ret)

CopyNodeExtended(h, node, doc, ret, extended, z) ==
  CopyNodeChildren(CopyNodeProps(CopyNodeNs(CopyNodeNsDef(h, node, ret), node, doc, ret),
                                 node, ret, z),
                   node, doc, ret, extended, z)

\* tmp = xmlAddChild(parent, ret) (tree.c:4279-4295)
CopyNodeAdd(h, parent, ret, z) ==
  IF parent # NULL THEN xmlAddChild(h, parent, ret, z) ELSE R(h, ret)

\* what follows the insertion: a coalesced node is returned as it is
CopyNodeAdded(tmp, node, doc, ret, extended, z) ==
  IF tmp.ret # ret \/ extended = 0 THEN tmp
  ELSE CopyNodeExtended(tmp.h, node, doc, ret, extended, z)

\* a document argument is copied by xmlCopyDoc, which no call explored
\* here reaches; a DTD or a declaration is not copied
xmlStaticCopyNode(h, node, doc, parent, extended, z) ==
  IF node = NULL THEN R(h, NULL)
  ELSE CASE h[node].type = "attr" -> xmlCopyProp(h, parent, node, z)
         [] h[node].type = "ns" -> xmlCopyNamespaceList(h, node)
         [] h[node].type = "doc" -> R(h, -1)
         [] h[node].type \in {"dtd", "entdecl"} -> R(h, NULL)
         [] OTHER ->
              IF Malloc(h) = NULL THEN R(h, NULL)
              ELSE CopyNodeAdded(CopyNodeAdd(CopyNodeBlock(h, Malloc(h), node, doc, parent),
                                             parent, Malloc(h), z),
                                 node, doc, Malloc(h), extended, z)

\* the loop of xmlStaticCopyNodeList with its variables ret and p; q is the
\* call xmlStaticCopyNode(node, doc, parent, 1), and a copy that failed is
\* dereferenced (q->prev) so that the call does not return
RECURSIVE CopyNodeLoop(_, _, _, _, _, _, _)
CopyNodeNext(q, node, doc, parent, ret, p, z) ==
  IF q.ret = -1 \/ q.ret = NULL THEN R(q.h, -1)
  ELSE IF ret = NULL
  THEN CopyNodeLoop(W(q.h, q.ret, "prev", NULL), q.h[node].next, doc, parent,
                    q.ret, q.ret, z)
  ELSE IF p # q.ret
  THEN CopyNodeLoop(W(W(q.h, p, "next", q.ret), q.ret, "prev", p),
                    q.h[node].next, doc, parent, ret, q.ret, z)
  ELSE CopyNodeLoop(q.h, q.h[node].next, doc, parent, ret, p, z)

CopyNodeLoop(h, node, doc, parent, ret, p, z) ==
  IF node = NULL THEN R(h, ret)
  ELSE CopyNodeNext(xmlStaticCopyNode(h, node, doc, parent, 1, z),
                    node, doc, parent, ret, p, z)

xmlStaticCopyNodeList(h, node, doc, parent, z) ==
  CopyNodeLoop(h, node, doc, parent, NULL, NULL, z)

xmlDocCopyNode(h, node, doc, extended, z) ==
  xmlStaticCopyNode(h, node, doc, NULL, extended, z)

\* ------------------------------------------------------------ tree shape
\* nodes visited from n following field f (n included)
RECURSIVE Walk(_, _, _, _)
Walk(h, n, f, fuel) ==
  IF n = NULL \/ fuel = 0 THEN {}
  ELSE {n} \cup Walk(h, h[n][f], f, fuel - 1)

Chain(h, n, f) == Walk(h, n, f, NumNodes + 1)

OnCycle(h, n, f) == n \in Chain(h, h[n][f], f)

TreeNodes(h) == {n \in Ids : h[n].st = "live" /\ h[n].type # "ns"}

\* every link of every live node points to a live node
NoDangling(h) ==
  \A n \in TreeNodes(h) : \A f \in LinkFields : h[n][f] # NULL => Live(h, h[n][f])

\* the shape every API call expects of its arguments: consistent double
\* links, first/last/properties anchors, one parent per chain, no cycles
TreeOK(h) ==
  /\ NoDangling(h)
  /\ \A n \in TreeNodes(h) :
       /\ h[n].next # NULL => /\ h[h[n].next].prev = n
                              /\ h[h[n].next].parent = h[n].parent
                              /\ (h[h[n].next].type = "attr") = (h[n].type = "attr")
       /\ h[n].prev # NULL => h[h[n].prev].next = n
       /\ (h[n].children = NULL) = (h[n].last = NULL)
       /\ h[n].children # NULL => /\ h[h[n].children].parent = n
                                  /\ h[h[n].children].prev = NULL
                                  /\ h[h[n].children].type # "attr"
                                  /\ h[n].type \in {"elem", "doc", "attr"}
       /\ h[n].last # NULL => /\ h[h[n].last].parent = n
                              /\ h[h[n].last].next = NULL
       /\ h[n].properties # NULL => /\ h[h[n].properties].parent = n
                                    /\ h[h[n].properties].prev = NULL
                                    /\ h[h[n].properties].type = "attr"
                                    /\ h[n].type = "elem"
       /\ h[n].parent # NULL =>
            IF h[n].type = "attr"
            THEN h[h[n].parent].properties \in Chain(h, n, "prev")
            ELSE /\ h[h[n].parent].children \in Chain(h, n, "prev")
                 /\ h[h[n].parent].last \in Chain(h, n, "next")
       /\ ~OnCycle(h, n, "next")
       /\ ~OnCycle(h, n, "prev")
       /\ ~OnCycle(h, n, "parent")
       /\ h[n].type = "doc" => h[n].parent = NULL /\ h[n].prev = NULL /\ h[n].next = NULL

\* ------------------------------------------------------------ the calls
\* nodes a caller can pass as the node to insert or as a sibling anchor
NodeArgs(h) == {n \in TreeNodes(h) : h[n].type # "doc"}
\* nodes a caller can pass as a parent
ParentArgs(h) == TreeNodes(h)

\* a call through which an attribute would be chained below a node that is
\* not an element reads fields the parent's structure does not have
Punned(h, parent, cur) == h[cur].type = "attr" /\ parent # NULL /\ h[parent].type # "elem"

\* a tree some earlier call has left out of shape is not used again
Damaged(h) == ~TreeOK(h)

Ready == steps < MaxOps /\ ~Damaged(heap)

\* the calls whose result depends on the image of released memory are
\* explored with both images, the others once
Frees(h1, h2) == \E n \in Ids : h1[n].st = "live" /\ h2[n].st = "freed"

Done(name, a, b, r) ==
  /\ r.ret # -1
  /\ heap' = r.h
  /\ op' = [name |-> name, a |-> a, b |-> b, ret |-> r.ret]
  /\ steps' = steps + 1

\* A disciplined caller passes two different nodes, never inserts a node
\* below or beside one of its own descendants, and chains attributes only
\* with attributes.
Ancestors(h, n) == Chain(h, h[n].parent, "parent")

Sane(h, anchor, node) ==
  /\ anchor # node
  /\ node \notin Ancestors(h, anchor)

SameChainKind(h, anchor, node) == (h[anchor].type = "attr") = (h[node].type = "attr")

\* xmlFreeNode's contract "this doesn't unlink the child from the list, use
\* xmlUnlinkNode() first" applied to the node handed to xmlAddChild
Unlinked(h, n) == h[n].parent = NULL /\ h[n].prev = NULL /\ h[n].next = NULL

\* strict = TRUE keeps the disciplined calls only
AddChildCall(strict) ==
  /\ Ready
  /\ \E parent \in ParentArgs(heap), cur \in NodeArgs(heap), z \in BOOLEAN :
       /\ ~Punned(heap, parent, cur)
       /\ strict => /\ Sane(heap, parent, cur) /\ Unlinked(heap, cur)
                    /\ heap[parent].type \in {"elem", "doc", "attr"}
       /\ LET r == xmlAddChild(heap, parent, cur, z)
          IN (z => Frees(heap, r.h)) /\ Done("xmlAddChild", parent, cur, r)

AddChildListCall(strict) ==
  /\ Ready
  /\ \E parent \in ParentArgs(heap), cur \in NodeArgs(heap), z \in BOOLEAN :
       /\ strict => /\ Sane(heap, parent, cur)
                    /\ heap[cur].parent = NULL /\ heap[cur].prev = NULL
                    /\ heap[cur].type # "attr"
                    /\ heap[parent].type \in {"elem", "doc", "attr"}
       /\ LET r == xmlAddChildList(heap, parent, cur, z)
          IN (z => Frees(heap, r.h)) /\ Done("xmlAddChildList", parent, cur, r)

AddNextSiblingCall(strict) ==
  /\ Ready
  /\ \E cur \in NodeArgs(heap), elem \in NodeArgs(heap), z \in BOOLEAN :
       /\ ~Punned(heap, heap[cur].parent, elem)
       /\ strict => Sane(heap, cur, elem) /\ SameChainKind(heap, cur, elem)
       /\ LET r == xmlAddNextSibling(heap, cur, elem, z)
          IN (z => Frees(heap, r.h)) /\ Done("xmlAddNextSibling", cur, elem, r)

AddPrevSiblingCall(strict) ==
  /\ Ready
  /\ \E cur \in NodeArgs(heap), elem \in NodeArgs(heap), z \in BOOLEAN :
       /\ ~Punned(heap, heap[cur].parent, elem)
       /\ strict => Sane(heap, cur, elem) /\ SameChainKind(heap, cur, elem)
       /\ LET r == xmlAddPrevSibling(heap, cur, elem, z)
          IN (z => Frees(heap, r.h)) /\ Done("xmlAddPrevSibling", cur, elem, r)

AddSiblingCall(strict) ==
  /\ Ready
  /\ \E cur \in NodeArgs(heap), elem \in NodeArgs(heap), z \in BOOLEAN :
       /\ strict => /\ Sane(heap, cur, elem)
                    /\ heap[cur].type # "attr" /\ heap[elem].type # "attr"
       /\ LET r == xmlAddSibling(heap, cur, elem, z)
          IN (z => Frees(heap, r.h)) /\ Done("xmlAddSibling", cur, elem, r)

TextMergeCall(strict) ==
  /\ Ready
  /\ \E first \in NodeArgs(heap), second \in NodeArgs(heap), z \in BOOLEAN :
       /\ strict => first # second
       /\ LET r == xmlTextMerge(heap, first, second, z)
          IN (z => Frees(heap, r.h)) /\ Done("xmlTextMerge", first, second, r)

UnlinkNode ==
  /\ Ready
  /\ \E cur \in NodeArgs(heap) :
       Done("xmlUnlinkNode", cur, NULL, R(xmlUnlinkNode(heap, cur), NULL))

ReplaceNodeCall(strict) ==
  /\ Ready
  /\ \E old \in NodeArgs(heap), cur \in NodeArgs(heap) :
       /\ strict => Sane(heap, old, cur)
       /\ Done("xmlReplaceNode", old, cur, xmlReplaceNode(heap, old, cur))

DocSetRootElementCall(strict) ==
  /\ Ready
  /\ \E doc \in {n \in TreeNodes(heap) : heap[n].type = "doc"},
        root \in NodeArgs(heap), z \in BOOLEAN :
       /\ strict => heap[root].type = "elem"
       /\ LET r == xmlDocSetRootElement(heap, doc, root, z)
          IN (z => Frees(heap, r.h)) /\ Done("xmlDocSetRootElement", doc, root, r)

\* any choice of argument nodes
AddChild == AddChildCall(FALSE)
AddChildList == AddChildListCall(FALSE)
AddNextSibling == AddNextSiblingCall(FALSE)
AddPrevSibling == AddPrevSiblingCall(FALSE)
AddSibling == AddSiblingCall(FALSE)
TextMerge == TextMergeCall(FALSE)
ReplaceNode == ReplaceNodeCall(FALSE)
DocSetRootElement == DocSetRootElementCall(FALSE)

\* the calls of a disciplined caller
UseAddChild == AddChildCall(TRUE)
UseAddChildList == AddChildListCall(TRUE)
UseAddNextSibling == AddNextSiblingCall(TRUE)
UseAddPrevSibling == AddPrevSiblingCall(TRUE)
UseAddSibling == AddSiblingCall(TRUE)
UseTextMerge == TextMergeCall(TRUE)
UseReplaceNode == ReplaceNodeCall(TRUE)
UseDocSetRootElement == DocSetRootElementCall(TRUE)

\* ------------------------------------------------- construction (Init)
\* two documents, three elements and a text node, just constructed
SceneDocs ==
  LET h1 == xmlNewDoc(EmptyHeap, 1)
      h2 == xmlNewDoc(h1, 2)
      h3 == xmlNewDocNode(h2, 3, 1, NULL, "a")
      h4 == xmlNewDocNode(h3, 4, 2, NULL, "b")
      h5 == xmlNewDocNode(h4, 5, 2, NULL, "c")
  IN xmlNewDocText(h5, 6, 2, <<"t">>)

\* the same nodes after xmlAddChild(doc1, a), xmlAddChild(b, c),
\* xmlAddChild(b, text)
SceneDocsBuilt ==
  LET h1 == xmlAddChild(SceneDocs, 1, 3, FALSE).h
      h2 == xmlAddChild(h1, 4, 5, FALSE).h
  IN xmlAddChild(h2, 4, 6, FALSE).h

\* two elements outside any document, two plain text nodes, a
\* do-not-escape text node and a text node built with NULL content
SceneText ==
  LET h1 == xmlNewNode(EmptyHeap, 1, NULL, "a")
      h2 == xmlNewNode(h1, 2, NULL, "b")
      h3 == xmlNewText(h2, 3, <<"a">>)
      h4 == xmlNewText(h3, 4, <<"b">>)
      h5 == NewDocTextNoenc(h4, 5, NULL, <<"c">>)
  IN xmlNewText(h5, 6, NULLSTR)

\* after xmlAddChild(a, b), xmlAddChild(a, text "a")
SceneTextBuilt ==
  LET h1 == xmlAddChild(SceneText, 1, 2, FALSE).h
  IN xmlAddChild(h1, 1, 3, FALSE).h

\* an element and the attributes id="1", id="2" and class
SceneAttr ==
  LET h1 == xmlNewNode(EmptyHeap, 1, NULL, "a")
      h2 == xmlNewDocProp(h1, 2, NULL, "id")
      h3 == xmlNewText(h2, 3, <<"1">>)
      h4 == xmlNewDocProp(h3, 4, NULL, "id")
      h5 == xmlNewText(h4, 5, <<"2">>)
      h6 == xmlNewDocProp(h5, 6, NULL, "class")
      h7 == xmlAddChild(h6, 2, 3, FALSE).h
  IN xmlAddChild(h7, 4, 5, FALSE).h

\* after xmlAddChild(a, class), xmlAddChild(a, id="1")
SceneAttrBuilt ==
  LET h1 == xmlAddChild(SceneAttr, 1, 6, FALSE).h
  IN xmlAddChild(h1, 1, 2, FALSE).h

NoOp == [name |-> "init", a |-> NULL, b |-> NULL, ret |-> NULL]

Init ==
  /\ heap \in {SceneDocs, SceneDocsBuilt, SceneText, SceneTextBuilt,
               SceneAttr, SceneAttrBuilt}
  /\ op = NoOp
  /\ steps = 0

Next ==
  \/ AddChild
  \/ AddChildList
  \/ AddNextSibling
  \/ AddPrevSibling
  \/ AddSibling
  \/ TextMerge
  \/ UnlinkNode
  \/ ReplaceNode
  \/ DocSetRootElement

Spec == Init /\ [][Next]_vars

NextLinks ==
  \/ AddChild
  \/ AddNextSibling
  \/ UnlinkNode
  \/ ReplaceNode

\* sequences of the four relinking calls alone, on any argument nodes
SpecLinks == Init /\ [][NextLinks]_vars

NextUse ==
  \/ UseAddChild
  \/ UseAddChildList
  \/ UseAddNextSibling
  \/ UseAddPrevSibling
  \/ UseAddSibling
  \/ UseTextMerge
  \/ UnlinkNode
  \/ UseReplaceNode
  \/ UseDocSetRootElement

\* the tree under the calls of a disciplined caller
SpecUse == Init /\ [][NextUse]_vars

\* ------------------------------------------------- namespace and copy calls
U1 == <<"u1">>
U2 == <<"u2">>
PrefixX == <<"x">>

\* the searches read their doc argument in the reserved branch only
DocArgs(h, node, reserved) == IF reserved THEN {NULL, h[node].doc} ELSE {h[node].doc}

Docs(h) == {n \in TreeNodes(h) : h[n].type = "doc"}
Elements(h) == {n \in TreeNodes(h) : h[n].type = "elem"}
Attributes(h) == {n \in TreeNodes(h) : h[n].type = "attr"}
Declarations(h) == {n \in Ids : h[n].st = "live" /\ h[n].type = "ns"}

\* the call returned and none of its xmlMalloc failed: addresses are handed
\* out in order and one is still unused
DoneNs(name, a, b, c, r) ==
  /\ r.ret # -1
  /\ Malloc(r.h) # NULL
  /\ heap' = r.h
  /\ op' = [name |-> name, a |-> a, b |-> b, c |-> c, ret |-> r.ret]
  /\ steps' = steps + 1

NewNs ==
  /\ Ready
  /\ \E node \in Elements(heap) \cup {NULL}, href \in {NULLSTR, U1},
        prefix \in {NULLSTR, PrefixX} :
       \E r \in {xmlNewNs(heap, node, href, prefix)} :
         DoneNs("xmlNewNs", node, href, prefix, r)

SetNs ==
  /\ Ready
  /\ \E node \in Elements(heap) \cup Attributes(heap),
        ns \in Declarations(heap) \cup {NULL} :
       DoneNs("xmlSetNs", node, ns, NULL, R(xmlSetNs(heap, node, ns), NULL))

SearchNs ==
  /\ Ready
  /\ \E node \in NodeArgs(heap), nameSpace \in {NULLSTR, PrefixX, XmlPrefix} :
       \E doc \in DocArgs(heap, node, nameSpace = XmlPrefix) :
         \E r \in {xmlSearchNs(heap, doc, node, nameSpace)} :
           DoneNs("xmlSearchNs", doc, node, nameSpace, r)

SearchNsByHref ==
  /\ Ready
  /\ \E node \in NodeArgs(heap), href \in {NULLSTR, U1, U2, XML_XML_NAMESPACE} :
       \E doc \in DocArgs(heap, node, href = XML_XML_NAMESPACE) :
         \E r \in {xmlSearchNsByHref(heap, doc, node, href)} :
           DoneNs("xmlSearchNsByHref", doc, node, href, r)

\* the int result -1 is the error return of the call
ReconciliateNs ==
  /\ Ready
  /\ \E tree \in NodeArgs(heap) : \E doc \in {NULL, heap[tree].doc} :
       \E r \in {xmlReconciliateNs(heap, doc, tree)} :
          /\ Malloc(r.h) # NULL
          /\ heap' = r.h
          /\ op' = [name |-> "xmlReconciliateNs", a |-> doc, b |-> tree,
                    c |-> NULL, ret |-> r.ret]
          /\ steps' = steps + 1

DocCopyNode ==
  /\ Ready
  /\ \E node \in NodeArgs(heap), doc \in Docs(heap), extended \in {0, 1, 2},
        z \in BOOLEAN :
       \E r \in {xmlDocCopyNode(heap, node, doc, extended, z)} :
         (z => Frees(heap, r.h)) /\ DoneNs("xmlDocCopyNode", node, doc, extended, r)

CopyProp ==
  /\ Ready
  /\ \E target \in Elements(heap) \cup {NULL}, cur \in Attributes(heap), z \in BOOLEAN :
       \E r \in {xmlCopyProp(heap, target, cur, z)} :
         (z => Frees(heap, r.h)) /\ DoneNs("xmlCopyProp", target, cur, NULL, r)

\* ------------------------------------------------------ namespace scenes
\* <a xmlns:x="u1"><b xmlns:x="u2"><c x:k="v"/>text</b></a> in a document;
\* b and the attribute k are bound to the declaration on b
SceneNested ==
  LET sNodes(g) == xmlNewDocNode(xmlNewDocNode(xmlNewDocNode(xmlNewDoc(g, 1),
                     2, 1, NULL, "a"), 3, 1, NULL, "b"), 4, 1, NULL, "c")
      sLeaves(g) == xmlNewDocText(xmlNewDocProp(g, 5, 1, "k"), 6, 1, <<"t">>)
      sTree(g) == xmlAddChild(xmlAddChild(xmlAddChild(xmlAddChild(xmlAddChild(g,
                     1, 2, FALSE).h, 2, 3, FALSE).h, 3, 4, FALSE).h,
                     3, 6, FALSE).h, 4, 5, FALSE).h
      sDecls(g) == xmlNewNs(xmlNewNs(g, 2, U1, PrefixX).h, 3, U2, PrefixX).h
      sRefs(g) == xmlSetNs(xmlSetNs(g, 3, 8), 5, 8)
  IN sRefs(sDecls(sTree(sLeaves(sNodes(EmptyHeap)))))

\* <r><d xmlns:x="u2"/><s xmlns:x="u1"><x:t x:k=""/></s></r> in a document;
\* s, t and the attribute k are bound to the declaration on s
SceneSource ==
  LET sNodes(g) == xmlNewDocNode(xmlNewDocNode(xmlNewDocNode(xmlNewDocNode(
                     xmlNewDoc(g, 1), 2, 1, NULL, "r"), 3, 1, NULL, "d"),
                     4, 1, NULL, "s"), 5, 1, NULL, "t")
      sLeaves(g) == xmlNewDocProp(g, 6, 1, "k")
      sTree(g) == xmlAddChild(xmlAddChild(xmlAddChild(xmlAddChild(xmlAddChild(g,
                     1, 2, FALSE).h, 2, 3, FALSE).h, 2, 4, FALSE).h,
                     4, 5, FALSE).h, 5, 6, FALSE).h
      sDecls(g) == xmlNewNs(xmlNewNs(g, 3, U2, PrefixX).h, 4, U1, PrefixX).h
      sRefs(g) == xmlSetNs(xmlSetNs(xmlSetNs(g, 4, 8), 5, 8), 6, 8)
  IN sRefs(sDecls(sTree(sLeaves(sNodes(EmptyHeap)))))

\* the same tree after the cut and paste xmlUnlinkNode(t); xmlAddChild(d, t)
ScenePasted == xmlAddChild(xmlUnlinkNode(SceneSource, 5), 3, 5, FALSE).h

InitNs ==
  /\ heap \in {SceneNested, SceneSource, ScenePasted}
  /\ op = NoOp
  /\ steps = 0

NextNs ==
  \/ NewNs
  \/ SetNs
  \/ SearchNs
  \/ SearchNsByHref
  \/ ReconciliateNs
  \/ DocCopyNode
  \/ CopyProp
  \/ UseAddChild
  \/ UnlinkNode

SpecNs == InitNs /\ [][NextNs]_vars

\* ================================================================ claims

\* C1: after any sequence of xmlAddChild, xmlAddNextSibling, xmlUnlinkNode
\* and xmlReplaceNode calls, on any argument nodes, every node n with parent
\* p reaches p.children by following prev and p.last by following next, and
\* no sibling chain contains a cycle.
C1_SiblingInvariant ==
  \A n \in TreeNodes(heap) :
    /\ (heap[n].parent # NULL /\ heap[n].type # "attr") =>
         LET p == heap[n].parent
         IN /\ heap[p].children \in Chain(heap, n, "prev")
            /\ heap[p].last \in Chain(heap, n, "next")
    /\ ~OnCycle(heap, n, "next")
    /\ ~OnCycle(heap, n, "prev")

\* the nodes below d: closure of its children under next, children and
\* properties
RECURSIVE Close(_, _, _)
Close(h, S, fuel) ==
  LET T == S \cup {h[n].next : n \in S} \cup {h[n].children : n \in S}
             \cup {h[n].properties : n \in S}
      U == T \ {NULL}
  IN IF U = S \/ fuel = 0 THEN S ELSE Close(h, U, fuel - 1)

Below(h, d) == Close(h, {h[d].children} \ {NULL}, NumNodes)

AttachOps ==
  {"xmlAddChild", "xmlAddChildList", "xmlAddNextSibling", "xmlAddPrevSibling",
   "xmlAddSibling", "xmlReplaceNode", "xmlDocSetRootElement"}

\* C2: after every attach operation returns, every node reachable from a
\* document's content chain (descendants, attributes and their value nodes)
\* has its doc pointer equal to that document.
C2_DocPointers ==
  op.name \in AttachOps =>
    \A d \in Docs(heap) : \A n \in Below(heap, d) : heap[n].doc = d

\* C3: a node freed by a tree-mutation operation is not referenced by the
\* children, last, properties, next or prev link of any live node.
C3_NoLinkToFreed ==
  \A n \in TreeNodes(heap) :
    \A f \in {"children", "last", "properties", "next", "prev"} :
      heap[n][f] # NULL => heap[heap[n][f]].st # "freed"

\* the attributes of elem other than cur carrying cur's name and namespace
SameNamed(h, elem, cur) ==
  {a \in Chain(h, h[elem].properties, "next") :
     /\ a # cur
     /\ h[a].name = h[cur].name
     /\ IF h[cur].ns = NULL THEN TRUE
        ELSE h[a].ns # NULL /\ h[h[a].ns].href = h[h[cur].ns].href}

\* xmlAddChild(elem, cur) was just called with an attribute cur that elem did
\* not carry while elem carried another attribute of that name
AddedOverSameName ==
  /\ op'.name = "xmlAddChild"
  /\ heap[op'.b].type = "attr"
  /\ heap[op'.a].type = "elem"
  /\ heap[op'.b].parent = NULL
  /\ SameNamed(heap, op'.a, op'.b) # {}

\* C4: adding with xmlAddChild an attribute to an element that carries a
\* different attribute of the same name and namespace leaves the element's
\* attribute chain holding exactly one attribute of that name, the new one
\* with its value.
C4_AttrUnique ==
  [][AddedOverSameName =>
       LET elem == op'.a
           cur == op'.b
           ch == Chain(heap', heap'[elem].properties, "next")
       IN /\ cur \in ch
          /\ ch \cap SameNamed(heap, elem, cur) = {}
          /\ heap'[cur].st = "live"
          /\ heap'[cur].children = heap[cur].children]_vars

\* xmlAddChild(p, t) was just called with a text node t while the last child
\* of p was another text node with the same name tag
AddedTextAfterText ==
  /\ op'.name = "xmlAddChild"
  /\ heap[op'.b].type = "text"
  /\ heap[op'.a].last # NULL
  /\ heap[op'.a].last # op'.b
  /\ heap[heap[op'.a].last].type = "text"
  /\ heap[heap[op'.a].last].name = heap[op'.b].name

\* C5: xmlAddChild(p, t) with t a text node, when p's last child is a text
\* node with the same name tag, adds no new child: the last child's content
\* becomes its old content followed by t's content, t is freed and the
\* surviving node is returned.
C5_TextCoalesce ==
  [][AddedTextAfterText =>
       LET p == op'.a
           t == op'.b
           l == heap[p].last
       IN /\ heap'[p].last = l
          /\ heap'[p].children = heap[p].children
          /\ Chain(heap', heap'[p].children, "next") \ {t}
               = Chain(heap, heap[p].children, "next") \ {t}
          /\ heap'[l].content = xmlStrcat(heap[l].content, heap[t].content)
          /\ heap'[t].st = "freed"
          /\ heap'[l].st = "live"
          /\ op'.ret = l]_vars

\* two text nodes "a" and "b" appended to an element gave one child "ab"
C5_Witness ==
  /\ op.name = "xmlAddChild"
  /\ op.ret # op.b
  /\ heap[op.b].st = "freed"
  /\ heap[op.a].type = "elem"
  /\ heap[op.a].children = op.ret
  /\ heap[op.a].last = op.ret
  /\ heap[op.ret].next = NULL
  /\ heap[op.ret].content = <<"a", "b">>

InsertOps ==
  {"xmlAddChild", "xmlAddChildList", "xmlAddNextSibling", "xmlAddPrevSibling",
   "xmlAddSibling", "xmlTextMerge"}

\* C6: no insertion operation concatenates two text nodes whose name tags
\* differ: when a call changes the content of a text node and frees another
\* text node, the two carry the same name tag.
C6_NoMixedMerge ==
  [][op'.name \in InsertOps =>
       \A s1 \in TreeNodes(heap), t \in TreeNodes(heap) :
         (/\ heap[s1].type = "text" /\ heap[t].type = "text"
          /\ heap'[s1].st = "live" /\ heap'[t].st = "freed"
          /\ heap'[s1].content # heap[s1].content)
         => heap[s1].name = heap[t].name]_vars

\* --------------------------------------------------- namespace lookups
\* the elements of n's ancestor-or-self chain
Scope(h, n) == {e \in {n} \cup Ancestors(h, n) : h[e].type = "elem"}

\* the declarations of prefix that element e carries in its nsDef list
DeclsOf(h, e, prefix) ==
  {d \in Chain(h, h[e].nsDef, "next") : h[d].prefix = prefix}

\* the member of a set of declarations of one nsDef list that comes first
FirstDecl(h, S) ==
  CHOOSE d \in S : \A d2 \in S \ {d} : d2 \in Chain(h, h[d].next, "next")

\* the member of a set of elements of one ancestor chain nearest to the start
Nearest(h, D) == CHOOSE e \in D : \A f \in D \ {e} : f \in Ancestors(h, e)

\* the declarations of prefix with a non-null href on element e
BoundDecls(h, e, prefix) ==
  {d \in DeclsOf(h, e, prefix) : h[d].href # NULLSTR}

\* element e carries a reference to a declaration of prefix with a non-null
\* href, and e is not the node the search started from
RefBinds(h, n, e, prefix) ==
  /\ e # n
  /\ h[e].ns # NULL
  /\ h[h[e].ns].prefix = prefix
  /\ h[h[e].ns].href # NULLSTR

SearchedPlain == op.name = "xmlSearchNs" /\ op.c # XmlPrefix

C8_HrefInScope ==
  (op.name = "xmlSearchNsByHref" /\ op.ret # NULL) =>
    LET d == op.ret
        start == op.b
    IN /\ heap[d].href = op.c
       /\ heap[start].type = "attr" => heap[d].prefix # NULLSTR
       /\ op.c # XML_XML_NAMESPACE =>
            \E e \in Scope(heap, start) :
              /\ \/ d \in Chain(heap, heap[e].nsDef, "next")
                 \/ (e # start /\ heap[e].ns = d)
              /\ \A f \in Scope(heap, start) :
                   (f # e /\ e \in Ancestors(heap, f))
                     => DeclsOf(heap, f, heap[d].prefix) = {}

\* a search by href returned a declaration carried by a proper ancestor
C8_Witness ==
  /\ op.name = "xmlSearchNsByHref"
  /\ op.ret # NULL
  /\ op.c = U2
  /\ op.ret \notin Chain(heap, heap[op.b].nsDef, "next")
  /\ \E e \in Ancestors(heap, op.b) :
       op.ret \in Chain(heap, heap[e].nsDef, "next")

\* ------------------------------------------- copies and reconciliation
\* the nodes of the subtree rooted at n, attributes included
Subtree(h, n) ==
  {n} \cup Close(h, {h[n].children, h[n].properties} \ {NULL}, NumNodes)

\* p is base followed by one or more decimal digits
Disambiguated(p, base) ==
  /\ Len(p) > Len(base)
  /\ SubSeq(p, 1, Len(base)) = base
  /\ \A i \in (Len(base) + 1)..Len(p) :
       \E k \in 1..Len(DigitChars) : p[i] = DigitChars[k]

\* element e of document doc declares prefix with an href other than href
BoundElsewhere(h, doc, prefix, href) ==
  \E e \in Below(h, doc) :
    /\ h[e].type = "elem"
    /\ \E d \in DeclsOf(h, e, prefix) :
         h[d].href # NULLSTR /\ h[d].href # href

\* C9: after xmlDocCopyNode(node, doc, 1) of an element that declares a
\* prefix x with href u, into a document where an element already binds x to
\* another href, there is a declaration of u under a disambiguated prefix (x
\* followed by digits) that sits in the destination document or on the copy,
\* and every ns reference to href u inside the copy points at it.
C9_CopyDisambiguates ==
  (op.name = "xmlDocCopyNode" /\ op.c = 1 /\ op.ret # NULL
     /\ heap[op.a].type = "elem") =>
    \A d \in Chain(heap, heap[op.a].nsDef, "next") :
      (/\ heap[d].prefix # NULLSTR /\ heap[d].href # NULLSTR
       /\ BoundElsewhere(heap, op.b, heap[d].prefix, heap[d].href))
      => \E nd \in Declarations(heap) :
           /\ heap[nd].href = heap[d].href
           /\ Disambiguated(heap[nd].prefix, heap[d].prefix)
           /\ \E e \in Below(heap, op.b) \cup Subtree(heap, op.ret) :
                nd \in Chain(heap, heap[e].nsDef, "next")
           /\ \A m \in Subtree(heap, op.ret) :
                (heap[m].ns # NULL /\ heap[heap[m].ns].href = heap[d].href)
                  => heap[m].ns = nd

\* C10: after xmlReconciliateNs(doc, root) returns 0, every non-null ns
\* reference of an element or attribute of the subtree points to a
\* declaration carried by the node or one of its ancestors, and that
\* declaration is the one xmlSearchNs finds for its prefix from the node.
C10_ReferencesInScope ==
  (op.name = "xmlReconciliateNs" /\ op.ret = 0) =>
    \A n \in Subtree(heap, op.b) :
      (heap[n].type \in {"elem", "attr"} /\ heap[n].ns # NULL) =>
        LET d == heap[n].ns
        IN /\ \E e \in Scope(heap, n) :
                d \in Chain(heap, heap[e].nsDef, "next")
           /\ xmlSearchNs(heap, op.a, n, heap[d].prefix).ret = d

\* ----------------------------------------- the probing loop, step by step
\* The loop of xmlNewReconciliedNs (tree.c:6374-6396) with one step per
\* search. The scenes cannot hold the thousand declarations that fill every
\* candidate, so each search is explored with both of its outcomes; op holds
\* the locals of the call.
ProbeStart(h, tree, ns) ==
  [name |-> "xmlNewReconciliedNs", tree |-> tree, ns |-> ns,
   prefix |-> FirstPrefix(h, ns), counter |-> 1, pc |-> "search",
   found |-> FALSE, ret |-> NULL, before |-> Declarations(h)]

\* a variant of the loop that gives up by declaring the last candidate
ProbeGiveUp_Declare(h, o) == xmlNewNs(h, o.tree, h[o.ns].href, o.prefix)

\* if (counter > 1000) return (NULL);
ProbeGiveUp(h, o) == R(h, NULL)

\* def = xmlSearchNs(doc, tree, prefix) came back NULL: the declaration is
\* created and returned (tree.c:6395-6396)
ProbeFree ==
  /\ op.name = "xmlNewReconciliedNs" /\ op.pc = "search"
  /\ \E r \in {xmlNewNs(heap, op.tree, heap[op.ns].href, op.prefix)} :
       /\ heap' = r.h
       /\ op' = [op EXCEPT !.pc = "returned", !.found = FALSE, !.ret = r.ret]
  /\ UNCHANGED steps

\* def came back non-NULL: the loop gives up or prints the next candidate
\* (tree.c:6380-6390)
ProbeBound ==
  /\ op.name = "xmlNewReconciliedNs" /\ op.pc = "search"
  /\ IF op.counter > ProbeCap
     THEN \E r \in {ProbeGiveUp(heap, op)} :
            /\ heap' = r.h
            /\ op' = [op EXCEPT !.pc = "returned", !.found = TRUE, !.ret = r.ret]
     ELSE /\ heap' = heap
          /\ op' = [op EXCEPT !.found = TRUE,
                              !.prefix = FirstPrefix(heap, op.ns) \o Decimal(op.counter),
                              !.counter = op.counter + 1]
  /\ UNCHANGED steps

\* the call is made on element c of the nested scene, with the declarations
\* of the scene and a free-standing default declaration as ns
InitProbe ==
  /\ heap = xmlNewNs(SceneNested, NULL, U1, NULLSTR).h
  /\ \E ns \in Declarations(heap) : op = ProbeStart(heap, 4, ns)
  /\ steps = 0

NextProbe == ProbeFree \/ ProbeBound

SpecProbe == InitProbe /\ [][NextProbe]_vars /\ WF_vars(NextProbe)

\* C11: xmlNewReconciliedNs always returns, it never searches more than
\* ProbeCap + 1 candidate prefixes, and when the last candidate it searched
\* was bound too it returns NULL and the tree holds the declarations it held
\* before the call.
C11_ProbeBounded ==
  /\ [](/\ op.counter <= ProbeCap + 1
        /\ (op.pc = "returned" /\ op.found)
             => (op.ret = NULL /\ Declarations(heap) = op.before))
  /\ <>(op.pc = "returned")

\* every candidate up to the last numbered one was bound and the call
\* returned NULL
C11_Witness ==
  /\ op.name = "xmlNewReconciliedNs"
  /\ op.pc = "returned"
  /\ op.found
  /\ op.counter = ProbeCap + 1
  /\ op.prefix = <<"x", "1", "0", "0", "0">>
  /\ op.ret = NULL

\* ======================================================= content parsing
\* A string value is a sequence of characters; reading past its end gives
\* the terminating NUL.
NUL == ""

At(v, i) == IF i >= 1 /\ i <= Len(v) THEN v[i] ELSE NUL

\* the characters of U+0020..U+007E, and xmlCopyCharMultiByte on one of
\* them; U+0060 and any value outside the range is kept as one opaque
\* character
Ascii ==
  <<" ", "!", "\"", "#", "$", "%", "&", "'", "(", ")", "*", "+", ",", "-",
    ".", "/", "0", "1", "2", "3", "4", "5", "6", "7", "8", "9", ":", ";",
    "<", "=", ">", "?", "@", "A", "B", "C", "D", "E", "F", "G", "H", "I",
    "J", "K", "L", "M", "N", "O", "P", "Q", "R", "S", "T", "U", "V", "W",
    "X", "Y", "Z", "[", "\\", "]", "^", "_", "U+96", "a", "b", "c", "d", "e",
    "f", "g", "h", "i", "j", "k", "l", "m", "n", "o", "p", "q", "r", "s",
    "t", "u", "v", "w", "x", "y", "z", "{", "|", "}", "~">>

xmlCopyCharMultiByte(val) ==
  IF val >= 32 /\ val <= 126 THEN <<Ascii[val - 31]>>
  ELSE <<"U+" \o ToString(val)>>

\* the value of a digit of a character reference in the given base, -1 for
\* a character that is no digit of it (tree.c:1596-1608, 1622-1630)
DigitValue(tmp, base) ==
  LET c == {k \in 1..Len(Ascii) : Ascii[k] = tmp}
      k == CHOOSE k \in c : TRUE
  IN IF c = {} THEN -1
     ELSE IF k >= 17 /\ k <= 26 THEN k - 17
     ELSE IF base = 16 /\ k >= 66 /\ k <= 71 THEN k - 56
     ELSE IF base = 16 /\ k >= 34 /\ k <= 39 THEN k - 24
     ELSE -1

\* the loop over the digits of a character reference, cur on the first
\* of them: the position after the ';', or the position of the character
\* that is no digit with the value reset (tree.c:1592-1612, 1618-1634)
RECURSIVE ScanDigits(_, _, _, _)
ScanDigits(v, cur, charval, base) ==
  IF At(v, cur) = ";" THEN [cur |-> cur + 1, charval |-> charval, err |-> FALSE]
  ELSE IF DigitValue(At(v, cur), base) >= 0
  THEN ScanDigits(v, cur + 1, charval * base + DigitValue(At(v, cur), base), base)
  ELSE [cur |-> cur, charval |-> 0, err |-> TRUE]

\* while ((*cur != 0) && (*cur != ';')) cur++;
RECURSIVE ScanName(_, _)
ScanName(v, cur) ==
  IF At(v, cur) = NUL \/ At(v, cur) = ";" THEN cur ELSE ScanName(v, cur + 1)

\* xmlNewReference: the name without its '&' and ';', and when the document
\* declares the entity its content and the declaration as only child
xmlNewReference(h, n, doc, name) ==
  LET bare == IF name[1] = "&"
              THEN (IF name[Len(name)] = ";"
                    THEN SubSeq(name, 2, Len(name) - 1)
                    ELSE SubSeq(name, 2, Len(name)))
              ELSE name
      ent == xmlGetDocEntity(h, doc, bare)
      sNew(g) == [g EXCEPT ![n] = [ZeroNode EXCEPT !.st = "live", !.type = "entref",
                                                   !.doc = doc, !.name = bare]]
      sEnt(g) == IF ent.node # NULL
                 THEN [g EXCEPT ![n].content = ent.content,
                                ![n].children = ent.node, ![n].last = ent.node]
                 ELSE g
  IN sEnt(sNew(h))

\* xmlNewDocTextLen: a text node holding the first len characters
xmlNewDocTextLen(h, n, doc, content, len) ==
  xmlNewDocText(h, n, doc, SubSeq(content, 1, len))

\* The state of the loop of xmlStringGetNodeList: the heap, the locals ret,
\* last, cur and q, the last error handed to xmlTreeErr, and whether the
\* function has returned from inside the loop.
ParseStart(h) ==
  [h |-> h, ret |-> NULL, last |-> NULL, cur |-> 1, q |-> 1,
   err |-> "none", stop |-> FALSE]

\* last = xmlAddNextSibling(last, node), or the first node of the list
Appended(s, h, node) ==
  IF s.last = NULL THEN [s EXCEPT !.h = h, !.ret = node, !.last = node]
  ELSE [s EXCEPT !.h = xmlAddNextSibling(h, s.last, node, FALSE).h,
                 !.last = xmlAddNextSibling(h, s.last, node, FALSE).ret]

\* node = xmlNewDocText(doc, content) followed by the append
AppendText(s, doc, content) ==
  IF Malloc(s.h) = NULL
  THEN (IF s.last = NULL THEN s ELSE [s EXCEPT !.last = NULL])
  ELSE Appended(s, xmlNewDocText(s.h, Malloc(s.h), doc, content), Malloc(s.h))

\* "Save the current text" at an '&' (tree.c:1565-1587)
SaveText(s, doc, v) ==
  IF s.cur = s.q THEN s
  ELSE IF s.last # NULL /\ s.h[s.last].type = "text"
  THEN [s EXCEPT !.h = xmlNodeAddContentLen(s.h, s.last, SubSeq(v, s.q, s.cur - 1),
                                            s.cur - s.q)]
  ELSE IF Malloc(s.h) = NULL THEN [s EXCEPT !.stop = TRUE]
  ELSE IF s.last = NULL
  THEN [s EXCEPT !.h = xmlNewDocTextLen(s.h, Malloc(s.h), doc,
                                        SubSeq(v, s.q, Len(v)), s.cur - s.q),
                 !.ret = Malloc(s.h), !.last = Malloc(s.h)]
  ELSE [s EXCEPT !.h = W(W(xmlNewDocTextLen(s.h, Malloc(s.h), doc,
                                            SubSeq(v, s.q, Len(v)), s.cur - s.q),
                           s.last, "next", Malloc(s.h)),
                         Malloc(s.h), "prev", s.last),
                 !.last = Malloc(s.h)]

\* a character reference whose digits were scanned (tree.c:1610-1635 and
\* 1720-1739): the error of an invalid digit, q = cur, and the text node
\* of a value that is not zero
CharRef(s, doc, d, code) ==
  IF d.charval # 0 /\ Malloc(s.h) # NULL
  THEN AppendText([s EXCEPT !.cur = d.cur, !.q = d.cur,
                            !.err = IF d.err THEN code ELSE s.err],
                  doc, xmlCopyCharMultiByte(d.charval))
  ELSE [s EXCEPT !.cur = d.cur, !.q = d.cur,
                 !.err = IF d.err THEN code ELSE s.err]

\* a variant that loses the text after the last reference
FinalText_Dropped(s, doc, v) == s

\* the text after the last reference (tree.c:1742-1763)
FinalText(s, doc, v) ==
  IF s.stop THEN s
  ELSE IF s.cur # s.q \/ s.ret = NULL
  THEN (IF s.last # NULL /\ s.h[s.last].type = "text"
        THEN [s EXCEPT !.h = xmlNodeAddContentLen(s.h, s.last, SubSeq(v, s.q, s.cur - 1),
                                                  s.cur - s.q)]
        ELSE IF Malloc(s.h) = NULL THEN s
        ELSE Appended(s, xmlNewDocTextLen(s.h, Malloc(s.h), doc,
                                          SubSeq(v, s.q, Len(v)), s.cur - s.q),
                      Malloc(s.h)))
  ELSE s

RECURSIVE xmlStringGetNodeList(_, _, _)

\* ent->children = xmlStringGetNodeList(doc, node->content) for the first
\* reference to a declared entity, and the parent of each parsed node; the
\* length-bounded function also sets ent->last
RECURSIVE OwnAll(_, _, _)
OwnAll(h, temp, ent) ==
  IF temp = NULL THEN h
  ELSE OwnAll(W(h, temp, "parent", ent), h[temp].next, ent)

RECURSIVE LastOf(_, _)
LastOf(h, temp) ==
  IF temp = NULL THEN NULL
  ELSE IF h[temp].next = NULL THEN temp ELSE LastOf(h, h[temp].next)

EntityChildren(ent, r, bounded) ==
  IF bounded
  THEN W(W(OwnAll(r.h, r.ret, ent), ent, "children", r.ret),
         ent, "last", LastOf(r.h, r.ret))
  ELSE W(OwnAll(r.h, r.ret, ent), ent, "children", r.ret)

\* a variant that makes a reference node for every named reference
EntityRef_AsReference(s, doc, val, ent, bounded) ==
  IF Malloc(s.h) = NULL THEN [s EXCEPT !.stop = TRUE]
  ELSE Appended(s, xmlNewReference(s.h, Malloc(s.h), doc, val), Malloc(s.h))

\* a named reference with a name, cur on its ';' (tree.c:1649-1715)
EntityRef(s, doc, val, ent, bounded) ==
  IF ent.found /\ ent.pre
  THEN (IF s.last # NULL /\ s.h[s.last].type = "text"
        THEN [s EXCEPT !.h = xmlNodeAddContent(s.h, s.last, ent.content)]
        ELSE AppendText(s, doc, ent.content))
  ELSE IF Malloc(s.h) = NULL THEN [s EXCEPT !.stop = TRUE]
  ELSE IF ent.found /\ s.h[ent.node].children = NULL
  THEN Appended(s,
                EntityChildren(ent.node,
                               xmlStringGetNodeList(xmlNewReference(s.h, Malloc(s.h), doc, val),
                                                    doc, ent.content),
                               bounded),
                Malloc(s.h))
  ELSE Appended(s, xmlNewReference(s.h, Malloc(s.h), doc, val), Malloc(s.h))

\* a variant that ends the parse at an unterminated reference without
\* reporting it
NamedRef_Unreported(s, doc, v, e, bounded) ==
  IF At(v, e) = NUL THEN [s EXCEPT !.cur = e, !.stop = TRUE]
  ELSE [s EXCEPT !.cur = e + 1, !.q = e + 1]

\* a named reference, cur on its '&' (tree.c:1637-1718)
NamedRef(s, doc, v, e, bounded) ==
  IF At(v, e) = NUL
  THEN [s EXCEPT !.cur = e, !.q = s.cur + 1,
                 !.err = "XML_TREE_UNTERMINATED_ENTITY", !.stop = TRUE]
  ELSE IF e # s.cur + 1
  THEN [EntityRef(s, doc, SubSeq(v, s.cur + 1, e - 1),
                  xmlGetDocEntity(s.h, doc, SubSeq(v, s.cur + 1, e - 1)), bounded)
          EXCEPT !.cur = e + 1, !.q = e + 1]
  ELSE [s EXCEPT !.cur = e + 1, !.q = e + 1]

\* the three kinds of '&' (tree.c:1589, 1614, 1637), the text before it
\* saved
Reference(s, doc, v, bounded) ==
  IF s.stop THEN s
  ELSE IF At(v, s.cur + 1) = "#" /\ At(v, s.cur + 2) = "x"
  THEN CharRef(s, doc, ScanDigits(v, s.cur + 3, 0, 16), "XML_TREE_INVALID_HEX")
  ELSE IF At(v, s.cur + 1) = "#"
  THEN CharRef(s, doc, ScanDigits(v, s.cur + 2, 0, 10), "XML_TREE_INVALID_DEC")
  ELSE NamedRef(s, doc, v, ScanName(v, s.cur + 1), bounded)

RECURSIVE ParseLoop(_, _, _, _)
\* while (*cur != 0)
ParseLoop(s, doc, v, bounded) ==
  IF s.stop \/ At(v, s.cur) = NUL THEN s
  ELSE IF At(v, s.cur) = "&"
  THEN ParseLoop(Reference([SaveText(s, doc, v) EXCEPT !.q = s.cur], doc, v, bounded),
                 doc, v, bounded)
  ELSE ParseLoop([s EXCEPT !.cur = s.cur + 1], doc, v, bounded)

\* return (ret), with the error reported on the way
ParseResult(s) == [h |-> s.h, ret |-> s.ret, err |-> s.err]

\* the list of nodes of an attribute value or element content
xmlStringGetNodeList(h, doc, value) ==
  IF value = NULLSTR THEN [h |-> h, ret |-> NULL, err |-> "none"]
  ELSE ParseResult(FinalText(ParseLoop(ParseStart(h), doc, value, FALSE), doc, value))

\* the same over the first len characters of value
xmlStringLenGetNodeList(h, doc, value, len) ==
  IF value = NULLSTR THEN [h |-> h, ret |-> NULL, err |-> "none"]
  ELSE ParseResult(FinalText(ParseLoop(ParseStart(h), doc, SubSeq(value, 1, len), TRUE),
                             doc, SubSeq(value, 1, len)))

\* xmlEncodeEntitiesReentrant (entities.c) on text of printable characters
RECURSIVE xmlEncodeEntitiesReentrant(_)
xmlEncodeEntitiesReentrant(input) ==
  IF input = NULLSTR THEN NULLSTR
  ELSE IF input = <<>> THEN <<>>
  ELSE (CASE Head(input) = "<" -> <<"&", "l", "t", ";">>
          [] Head(input) = ">" -> <<"&", "g", "t", ";">>
          [] Head(input) = "&" -> <<"&", "a", "m", "p", ";">>
          [] Head(input) = "\"" -> <<"&", "q", "u", "o", "t", ";">>
          [] OTHER -> <<Head(input)>>)
       \o xmlEncodeEntitiesReentrant(Tail(input))

\* the while loop of xmlNodeListGetString, ret the string built so far
RECURSIVE ListGetString(_, _, _, _, _)
ListGetString(h, doc, node, inLine, ret) ==
  IF node = NULL THEN ret
  ELSE IF h[node].type = "text"
  THEN ListGetString(h, doc, h[node].next, inLine,
                     IF inLine THEN xmlStrcat(ret, h[node].content)
                     ELSE xmlStrcat(ret, xmlEncodeEntitiesReentrant(h[node].content)))
  ELSE IF h[node].type = "entref"
  THEN ListGetString(h, doc, h[node].next, inLine,
                     IF inLine
                     THEN (IF xmlGetDocEntity(h, doc, h[node].name).found
                           THEN xmlStrcat(ret,
                                  IF xmlGetDocEntity(h, doc, h[node].name).pre THEN NULLSTR
                                  ELSE ListGetString(h, doc,
                                         h[xmlGetDocEntity(h, doc, h[node].name).node].children,
                                         TRUE, NULLSTR))
                           ELSE xmlStrcat(ret, h[node].content))
                     ELSE xmlStrcat(xmlStrcat(xmlStrcat(ret, <<"&">>), h[node].name), <<";">>))
  ELSE ListGetString(h, doc, h[node].next, inLine, ret)

xmlNodeListGetString(h, doc, list, inLine) ==
  IF list = NULL THEN NULLSTR
  ELSE ListGetString(h, doc, list, inLine, NULLSTR)

\* ================================================================ buffers
\* An xmlBuffer: content is the address of its memory area (NULL for none),
\* area the cells of that area, off the distance of buf->content from the
\* start of the area, use and size the fields of the same name.  A cell
\* that was never written holds JUNK.
JUNK == "?"

XML_BUFFER_ALLOC_DOUBLEIT == "XML_BUFFER_ALLOC_DOUBLEIT"
XML_BUFFER_ALLOC_EXACT == "XML_BUFFER_ALLOC_EXACT"
XML_BUFFER_ALLOC_IMMUTABLE == "XML_BUFFER_ALLOC_IMMUTABLE"

\* the default scheme of a new buffer (globals.c)
xmlBufferAllocScheme == XML_BUFFER_ALLOC_EXACT

XML_ERR_NO_MEMORY == 2

\* the characters at buf->content[0 .. use-1]
BufferBytes(b) == SubSeq(b.area, b.off + 1, b.off + b.use)

\* buf->content[i] = c
Poke(b, i, c) == [b EXCEPT !.area[b.off + i + 1] = c]

\* memmove(&buf->content[at], str, len)
Move(b, at, str, len) ==
  [b EXCEPT !.area = [k \in 1..Len(b.area) |->
                        IF k - b.off - 1 >= at /\ k - b.off - 1 < at + len
                        THEN str[k - b.off - at] ELSE b.area[k]]]

\* xmlBufferCreateSize; a result of NULLBUF is a NULL xmlBufferPtr.  ok is
\* the number of allocations that succeed from here on.
NULLBUF == [content |-> NULL, area |-> <<>>, off |-> 0, use |-> 0, size |-> 0,
            alloc |-> "none"]

xmlBufferCreateSize(size, ok) ==
  IF ok < 1 THEN NULLBUF
  ELSE IF size # 0
  THEN (IF ok < 2 THEN NULLBUF
        ELSE [content |-> 1, area |-> [k \in 1..(size + 2) |-> IF k = 1 THEN NUL ELSE JUNK],
              off |-> 0, use |-> 0, size |-> size + 2, alloc |-> xmlBufferAllocScheme])
  ELSE [content |-> NULL, area |-> <<>>, off |-> 0, use |-> 0, size |-> 0,
        alloc |-> xmlBufferAllocScheme]

\* xmlBufferCreateStatic over the memory area mem
xmlBufferCreateStatic(mem, size, ok) ==
  IF mem = NULLSTR \/ size = 0 THEN NULLBUF
  ELSE IF ok < 1 THEN NULLBUF
  ELSE [content |-> 1, area |-> mem, off |-> 0, use |-> size, size |-> size,
        alloc |-> XML_BUFFER_ALLOC_IMMUTABLE]

\* the result of a buffer call: the buffer after it, the value returned,
\* and the allocations that still succeed, -1 once one has failed
BR(b, ret, ok) == [b |-> b, ret |-> ret, ok |-> ok]

\* a variant without the test for an immutable buffer
xmlBufferSetAllocationScheme_Any(b, scheme, ok) ==
  IF b = NULLBUF THEN BR(b, 0, ok)
  ELSE BR([b EXCEPT !.alloc = scheme], 0, ok)

xmlBufferSetAllocationScheme(b, scheme, ok) ==
  IF b = NULLBUF THEN BR(b, 0, ok)
  ELSE IF b.alloc = XML_BUFFER_ALLOC_IMMUTABLE THEN BR(b, 0, ok)
  ELSE BR([b EXCEPT !.alloc = scheme], 0, ok)

xmlBufferEmpty(b, ok) ==
  IF b = NULLBUF THEN BR(b, 0, ok)
  ELSE IF b.content = NULL THEN BR(b, 0, ok)
  ELSE IF b.alloc = XML_BUFFER_ALLOC_IMMUTABLE
  THEN BR([b EXCEPT !.use = 0, !.content = b.content + 1, !.area = <<NUL>>, !.off = 0],
          0, ok)
  ELSE BR([b EXCEPT !.use = 0, !.area = [k \in 1..b.size |-> NUL]], 0, ok)

xmlBufferShrink(b, len, ok) ==
  IF b = NULLBUF THEN BR(b, -1, ok)
  ELSE IF len = 0 THEN BR(b, 0, ok)
  ELSE IF len > b.use THEN BR(b, -1, ok)
  ELSE IF b.alloc = XML_BUFFER_ALLOC_IMMUTABLE
  THEN BR([b EXCEPT !.use = b.use - len, !.off = b.off + len], len, ok)
  ELSE BR(Poke(Move([b EXCEPT !.use = b.use - len], 0,
                    SubSeq(b.area, b.off + len + 1, b.off + b.use), b.use - len),
               b.use - len, NUL),
          len, ok)

\* xmlRealloc(buf->content, size): the old cells as far as they fit
Realloc(b, size) ==
  [b EXCEPT !.content = b.content + 1, !.size = size, !.off = 0,
            !.area = [k \in 1..size |-> IF k <= Len(b.area) THEN b.area[k] ELSE JUNK]]

xmlBufferGrow(b, len, ok) ==
  IF b = NULLBUF THEN BR(b, -1, ok)
  ELSE IF b.alloc = XML_BUFFER_ALLOC_IMMUTABLE THEN BR(b, 0, ok)
  ELSE IF len + b.use < b.size THEN BR(b, 0, ok)
  ELSE IF ok < 1 THEN BR(b, -1, -1)
  ELSE BR(Realloc(b, b.use + len + 100), len + 100, ok - 1)

\* while (size > newSize) newSize *= 2;
RECURSIVE Doubled(_, _)
Doubled(newSize, size) ==
  IF size > newSize THEN Doubled(newSize * 2, size) ELSE newSize

NewSize(b, size) ==
  IF b.alloc = XML_BUFFER_ALLOC_DOUBLEIT
  THEN Doubled(IF b.size # 0 THEN b.size * 2 ELSE size + 10, size)
  ELSE size + 10

\* the three ways xmlBufferResize gets its new area (tree.c:7680-7700)
Rebuf(b, newSize) ==
  IF b.content = NULL
  THEN [b EXCEPT !.content = 1, !.size = newSize, !.off = 0,
                 !.area = [k \in 1..newSize |-> JUNK]]
  ELSE IF b.size - b.use < 100 THEN Realloc(b, newSize)
  ELSE [b EXCEPT !.content = b.content + 1, !.size = newSize, !.off = 0,
                 !.area = [k \in 1..newSize |->
                             IF k <= b.use THEN b.area[b.off + k]
                             ELSE IF k = b.use + 1 THEN NUL ELSE JUNK]]

xmlBufferResize(b, size, ok) ==
  IF b = NULLBUF THEN BR(b, 0, ok)
  ELSE IF b.alloc = XML_BUFFER_ALLOC_IMMUTABLE THEN BR(b, 0, ok)
  ELSE IF size < b.size THEN BR(b, 1, ok)
  ELSE IF ok < 1 THEN BR(b, 0, -1)
  ELSE BR(Rebuf(b, NewSize(b, size)), 1, ok - 1)

\* the tail of xmlBufferAdd after the length is known (tree.c:7752-7766)
AddTail(r, str, len) ==
  IF r.ret = 0 THEN BR(r.b, XML_ERR_NO_MEMORY, r.ok)
  ELSE BR(Poke(Move([r.b EXCEPT !.use = r.b.use + len], r.b.use, str, len),
               r.b.use + len, NUL),
          0, r.ok)

xmlBufferAdd(b, str, len, ok) ==
  IF str = NULLSTR \/ b = NULLBUF THEN BR(b, -1, ok)
  ELSE IF b.alloc = XML_BUFFER_ALLOC_IMMUTABLE THEN BR(b, -1, ok)
  ELSE IF len < -1 THEN BR(b, -1, ok)
  ELSE IF len = 0 THEN BR(b, 0, ok)
  ELSE IF (IF len < 0 THEN xmlStrlen(str) ELSE len) <= 0 THEN BR(b, -1, ok)
  ELSE IF b.use + (IF len < 0 THEN xmlStrlen(str) ELSE len) + 2 > b.size
  THEN AddTail(xmlBufferResize(b, b.use + (IF len < 0 THEN xmlStrlen(str) ELSE len) + 2, ok),
               str, IF len < 0 THEN xmlStrlen(str) ELSE len)
  ELSE AddTail(BR(b, 1, ok), str, IF len < 0 THEN xmlStrlen(str) ELSE len)

\* the tail of xmlBufferAddHead (tree.c:7814-7829)
AddHeadTail(r, str, len) ==
  IF r.ret = 0 THEN BR(r.b, XML_ERR_NO_MEMORY, r.ok)
  ELSE BR(Poke(Move(Move([r.b EXCEPT !.use = r.b.use + len], len,
                         SubSeq(r.b.area, r.b.off + 1, r.b.off + r.b.use), r.b.use),
                    0, str, len),
               r.b.use + len, NUL),
          0, r.ok)

xmlBufferAddHead(b, str, len, ok) ==
  IF b = NULLBUF THEN BR(b, -1, ok)
  ELSE IF b.alloc = XML_BUFFER_ALLOC_IMMUTABLE THEN BR(b, -1, ok)
  ELSE IF str = NULLSTR THEN BR(b, -1, ok)
  ELSE IF len < -1 THEN BR(b, -1, ok)
  ELSE IF len = 0 THEN BR(b, 0, ok)
  ELSE IF (IF len < 0 THEN xmlStrlen(str) ELSE len) <= 0 THEN BR(b, -1, ok)
  ELSE IF b.use + (IF len < 0 THEN xmlStrlen(str) ELSE len) + 2 > b.size
  THEN AddHeadTail(xmlBufferResize(b, b.use + (IF len < 0 THEN xmlStrlen(str) ELSE len) + 2, ok),
                   str, IF len < 0 THEN xmlStrlen(str) ELSE len)
  ELSE AddHeadTail(BR(b, 1, ok), str, IF len < 0 THEN xmlStrlen(str) ELSE len)

xmlBufferCat(b, str, ok) ==
  IF b = NULLBUF THEN BR(b, -1, ok)
  ELSE IF b.alloc = XML_BUFFER_ALLOC_IMMUTABLE THEN BR(b, -1, ok)
  ELSE IF str = NULLSTR THEN BR(b, -1, ok)
  ELSE xmlBufferAdd(b, str, -1, ok)

\* the for loop of xmlBufferCCat, r the outcome of the resize of this round
RECURSIVE CCatLoop(_, _, _)
CCatRound(r, str, cur) ==
  IF r.ret = 0 THEN BR(r.b, XML_ERR_NO_MEMORY, r.ok)
  ELSE CCatLoop(BR(Poke([r.b EXCEPT !.use = r.b.use + 1], r.b.use, str[cur]), 1, r.ok),
                str, cur + 1)

CCatLoop(r, str, cur) ==
  IF At(str, cur) = NUL THEN BR(Poke(r.b, r.b.use, NUL), 0, r.ok)
  ELSE IF r.b.use + 10 >= r.b.size
  THEN CCatRound(xmlBufferResize(r.b, r.b.use + 10, r.ok), str, cur)
  ELSE CCatRound(r, str, cur)

xmlBufferCCat(b, str, ok) ==
  IF b = NULLBUF THEN BR(b, -1, ok)
  ELSE IF b.alloc = XML_BUFFER_ALLOC_IMMUTABLE THEN BR(b, -1, ok)
  ELSE IF str = NULLSTR THEN BR(b, -1, ok)
  ELSE CCatLoop(BR(b, 1, ok), str, 1)

\* the default size of a buffer (globals.c)
xmlDefaultBufferSize == 4096

xmlBufferCreate(ok) ==
  IF ok < 2 THEN NULLBUF
  ELSE [content |-> 1,
        area |-> [k \in 1..xmlDefaultBufferSize |-> IF k = 1 THEN NUL ELSE JUNK],
        off |-> 0, use |-> 0, size |-> xmlDefaultBufferSize,
        alloc |-> xmlBufferAllocScheme]

\* the C string at buf->content: the characters before the first NUL
RECURSIVE StringAt(_, _)
StringAt(area, i) ==
  IF i > Len(area) \/ area[i] = NUL THEN <<>>
  ELSE <<area[i]>> \o StringAt(area, i + 1)

\* ---------------------------------------------------- reading the content
RECURSIVE xmlNodeBufGetContent(_, _, _, _)

\* "Skip to next node" of the element case (tree.c:5482-5513): the node
\* visited after tmp, NULL when the walk is over
RECURSIVE ClimbToNext(_, _, _)
ClimbToNext(h, cur, tmp) ==
  IF h[tmp].parent = NULL THEN NULL
  ELSE IF h[tmp].parent = cur THEN NULL
  ELSE IF h[h[tmp].parent].next # NULL THEN h[h[tmp].parent].next
  ELSE ClimbToNext(h, cur, h[tmp].parent)

SkipToNext(h, cur, tmp) ==
  IF h[tmp].children # NULL /\ h[h[tmp].children].type # "entdecl"
  THEN h[tmp].children
  ELSE IF tmp = cur THEN NULL
  ELSE IF h[tmp].next # NULL THEN h[tmp].next
  ELSE ClimbToNext(h, cur, tmp)

\* the switch on tmp->type inside the element case (tree.c:5463-5481)
VisitInElement(h, r, tmp) ==
  IF h[tmp].type = "text"
  THEN (IF h[tmp].content # NULLSTR
        THEN xmlBufferCat(r.b, h[tmp].content, r.ok) ELSE r)
  ELSE IF h[tmp].type = "entref"
  THEN xmlNodeBufGetContent(h, r.b, h[tmp].children, r.ok)
  ELSE r

RECURSIVE ElementWalk(_, _, _, _)
ElementWalk(h, r, cur, tmp) ==
  IF tmp = NULL THEN r
  ELSE ElementWalk(h, VisitInElement(h, r, tmp), cur, SkipToNext(h, cur, tmp))

\* the loops over a chain of children of the attribute, entity reference
\* and document cases
RECURSIVE ChainWalk(_, _, _, _)
ChainWalk(h, r, tmp, kind) ==
  IF tmp = NULL THEN r
  ELSE ChainWalk(h,
                 IF kind = "attr" /\ h[tmp].type = "text"
                 THEN xmlBufferCat(r.b, h[tmp].content, r.ok)
                 ELSE IF kind = "doc" /\ h[tmp].type \notin {"elem", "text"} THEN r
                 ELSE xmlNodeBufGetContent(h, r.b, tmp, r.ok),
                 h[tmp].next, kind)

xmlNodeBufGetContent(h, b, cur, ok) ==
  IF cur = NULL \/ b = NULLBUF THEN BR(b, -1, ok)
  ELSE IF h[cur].type = "text"
  THEN BR(xmlBufferCat(b, h[cur].content, ok).b, 0, xmlBufferCat(b, h[cur].content, ok).ok)
  ELSE IF h[cur].type = "elem"
  THEN BR(ElementWalk(h, BR(b, 0, ok), cur, cur).b, 0,
          ElementWalk(h, BR(b, 0, ok), cur, cur).ok)
  ELSE IF h[cur].type = "attr"
  THEN BR(ChainWalk(h, BR(b, 0, ok), h[cur].children, "attr").b, 0,
          ChainWalk(h, BR(b, 0, ok), h[cur].children, "attr").ok)
  ELSE IF h[cur].type = "entref"
  THEN (IF ~xmlGetDocEntity(h, h[cur].doc, h[cur].name).found THEN BR(b, -1, ok)
        ELSE IF xmlGetDocEntity(h, h[cur].doc, h[cur].name).pre THEN BR(b, 0, ok)
        ELSE BR(ChainWalk(h, BR(b, 0, ok),
                          h[xmlGetDocEntity(h, h[cur].doc, h[cur].name).node].children,
                          "entref").b,
                0,
                ChainWalk(h, BR(b, 0, ok),
                          h[xmlGetDocEntity(h, h[cur].doc, h[cur].name).node].children,
                          "entref").ok))
  ELSE IF h[cur].type = "doc"
  THEN BR(ChainWalk(h, BR(b, 0, ok), h[cur].children, "doc").b, 0,
          ChainWalk(h, BR(b, 0, ok), h[cur].children, "doc").ok)
  ELSE IF h[cur].type = "ns"
  THEN BR(xmlBufferCat(b, h[cur].href, ok).b, 0, xmlBufferCat(b, h[cur].href, ok).ok)
  ELSE BR(b, 0, ok)

\* ret = buffer->content; buffer->content = NULL; xmlBufferFree(buffer);
Detached(r) ==
  IF r.b.content = NULL THEN NULLSTR ELSE StringAt(r.b.area, r.b.off + 1)

xmlNodeGetContent(h, cur, ok) ==
  IF cur = NULL THEN NULLSTR
  ELSE IF h[cur].type = "elem"
  THEN (IF xmlBufferCreateSize(64, ok) = NULLBUF THEN NULLSTR
        ELSE Detached(xmlNodeBufGetContent(h, xmlBufferCreateSize(64, ok), cur, ok - 2)))
  ELSE IF h[cur].type = "attr"
  THEN (IF h[cur].parent # NULL
        THEN xmlNodeListGetString(h, h[h[cur].parent].doc, h[cur].children, TRUE)
        ELSE xmlNodeListGetString(h, NULL, h[cur].children, TRUE))
  ELSE IF h[cur].type = "entref"
  THEN (IF ~xmlGetDocEntity(h, h[cur].doc, h[cur].name).found THEN NULLSTR
        ELSE IF xmlBufferCreate(ok) = NULLBUF THEN NULLSTR
        ELSE Detached(xmlNodeBufGetContent(h, xmlBufferCreate(ok), cur, ok - 2)))
  ELSE IF h[cur].type = "doc"
  THEN (IF xmlBufferCreate(ok) = NULLBUF THEN NULLSTR
        ELSE Detached(xmlNodeBufGetContent(h, xmlBufferCreate(ok), cur, ok - 2)))
  ELSE IF h[cur].type = "ns" THEN xmlStrdup(h[cur].href)
  ELSE IF h[cur].type = "text"
  THEN (IF h[cur].content # NULLSTR THEN xmlStrdup(h[cur].content) ELSE NULLSTR)
  ELSE NULLSTR

\* ------------------------------------------------- nodes made from text
\* xmlNewDocNode with content: r is the outcome of xmlStringGetNodeList on
\* the heap that holds the new element n
NewDocNodeContent(r, n) ==
  [h |-> UpdateLastChildAndParent(W(r.h, n, "children", r.ret), n, r.ret),
   ret |-> r.ret, err |-> r.err]

\* xmlNewDocProp with a value: the list, the parent of each of its nodes,
\* and cur->last
NewDocPropValue(r, n) ==
  [h |-> W(OwnAll(W(r.h, n, "children", r.ret), r.ret, n), n, "last",
           LastOf(r.h, r.ret)),
   ret |-> r.ret, err |-> r.err]

\* A document and one entity declared in it (xmlAddDocEntity, entities.c):
\* <!ENTITY e "vw">
EntityName == <<"e">>

SceneEntity ==
  [xmlNewDoc(EmptyHeap, 1) EXCEPT
     ![2] = [ZeroNode EXCEPT !.st = "live", !.type = "entdecl", !.name = EntityName,
                             !.content = <<"v", "w">>, !.doc = 1]]

\* The texts handed to the parsing functions: up to MaxTokens pieces, each
\* a run of plain characters or a reference of one of the kinds the code
\* tells apart.
MaxTokens == 3

Tokens ==
  { <<"a">>, <<"b", "c">>, <<";">>,
    <<"&", "a", "m", "p", ";">>, <<"&", "l", "t", ";">>,
    <<"&", "e", ";">>, <<"&", "u", ";">>,
    <<"&", "#", "4", "9", ";">>, <<"&", "#", "x", "3", "B", ";">>,
    <<"&", "a">>, <<"&", "#", "1", "z", ";">>, <<"&", "#", "x", "g", ";">> }

RECURSIVE TextsOf(_)
TextsOf(k) ==
  IF k = 0 THEN {<<>>}
  ELSE TextsOf(k - 1) \cup {t \o u : t \in TextsOf(k - 1), u \in Tokens}

Texts == TextsOf(MaxTokens)

\* One text is parsed into the scene, by one of four calls; the calls
\* after it read the nodes it made.
TextOp(name, value, len, node, r, before) ==
  [name |-> name, from |-> name, value |-> value, len |-> len, node |-> node,
   ret |-> r.ret,
   err |-> r.err, inLine |-> TRUE, str |-> NULLSTR, before |-> before]

TextGetNodeList ==
  /\ steps < MaxOps /\ op = NoOp
  /\ \E value \in Texts :
       \E r \in {xmlStringGetNodeList(heap, 1, value)} :
         /\ heap' = r.h
         /\ op' = TextOp("xmlStringGetNodeList", value, Len(value), NULL, r, heap)
  /\ steps' = steps + 1

TextLenGetNodeList ==
  /\ steps < MaxOps /\ op = NoOp
  /\ \E value \in Texts : \E len \in 0..Len(value) :
       \E r \in {xmlStringLenGetNodeList(heap, 1, value, len)} :
         /\ heap' = r.h
         /\ op' = TextOp("xmlStringLenGetNodeList", value, len, NULL, r, heap)
  /\ steps' = steps + 1

TextNewDocNode ==
  /\ steps < MaxOps /\ op = NoOp
  /\ \E value \in Texts :
       \E r \in {NewDocNodeContent(
                   xmlStringGetNodeList(xmlNewDocNode(heap, Malloc(heap), 1, NULL, "n"),
                                        1, value),
                   Malloc(heap))} :
         /\ heap' = r.h
         /\ op' = TextOp("xmlNewDocNode", value, Len(value), Malloc(heap), r, heap)
  /\ steps' = steps + 1

TextNewDocProp ==
  /\ steps < MaxOps /\ op = NoOp
  /\ \E value \in Texts :
       \E r \in {NewDocPropValue(
                   xmlStringGetNodeList(xmlNewDocProp(heap, Malloc(heap), 1, "p"),
                                        1, value),
                   Malloc(heap))} :
         /\ heap' = r.h
         /\ op' = TextOp("xmlNewDocProp", value, Len(value), Malloc(heap), r, heap)
  /\ steps' = steps + 1

\* xmlNodeListGetString on the list of the last call
TextListGetString ==
  /\ steps < MaxOps /\ op # NoOp
  /\ \E inLine \in BOOLEAN :
       op' = [op EXCEPT !.name = "xmlNodeListGetString", !.node = NULL,
                        !.str = xmlNodeListGetString(heap, 1, op.ret, inLine),
                        !.inLine = inLine]
  /\ steps' = steps + 1
  /\ UNCHANGED heap

\* xmlNodeGetContent on the element or attribute of the last call
TextGetContent ==
  /\ steps < MaxOps /\ op # NoOp /\ op.node # NULL
  /\ op' = [op EXCEPT !.name = "xmlNodeGetContent",
                      !.str = xmlNodeGetContent(heap, op.node, 2)]
  /\ steps' = steps + 1
  /\ UNCHANGED heap

InitText ==
  /\ heap = SceneEntity
  /\ op = NoOp
  /\ steps = 0

NextText ==
  \/ TextGetNodeList \/ TextLenGetNodeList \/ TextNewDocNode \/ TextNewDocProp
  \/ TextListGetString \/ TextGetContent

SpecText == InitText /\ [][NextText]_vars

\* ------------------------------------------------------- parsed content
\* the text the last parsing call was given
ParsedText == SubSeq(op.value, 1, op.len)

\* a text of plain characters and references to predefined entities
RECURSIVE PlainAndPredefined(_)
PlainAndPredefined(v) ==
  IF v = <<>> THEN TRUE
  ELSE IF Head(v) # "&" THEN PlainAndPredefined(Tail(v))
  ELSE /\ ScanName(v, 2) <= Len(v)
       /\ xmlGetPredefinedEntity(SubSeq(v, 2, ScanName(v, 2) - 1)) # NULLSTR
       /\ PlainAndPredefined(SubSeq(v, ScanName(v, 2) + 1, Len(v)))

\* such a text with each reference replaced by the character it names
RECURSIVE Decoded(_)
Decoded(v) ==
  IF v = <<>> THEN <<>>
  ELSE IF Head(v) # "&" THEN <<Head(v)>> \o Decoded(Tail(v))
  ELSE xmlGetPredefinedEntity(SubSeq(v, 2, ScanName(v, 2) - 1))
       \o Decoded(SubSeq(v, ScanName(v, 2) + 1, Len(v)))

\* C12: the nodes parsed from a text of plain characters and references to
\* predefined entities materialize, through xmlNodeListGetString with
\* substitution or through xmlNodeGetContent of the element or attribute
\* holding them, as the text with each reference decoded.
C12_PredefinedRoundTrip ==
  (/\ op.name \in {"xmlNodeListGetString", "xmlNodeGetContent"}
   /\ op.inLine
   /\ PlainAndPredefined(ParsedText))
    => op.str = Decoded(ParsedText)

C12_Witness ==
  /\ op.name = "xmlNodeGetContent" /\ op.from = "xmlNewDocNode"
  /\ op.value = <<"a", "&", "a", "m", "p", ";", "b", "c">>
  /\ heap[op.ret].next = NULL
  /\ op.str = <<"a", "&", "b", "c">>

\* the positions at which the loop of the parsing functions meets an '&'
RECURSIVE RefStarts(_, _)
RefStarts(v, i) ==
  IF i > Len(v) THEN {}
  ELSE IF v[i] # "&" THEN RefStarts(v, i + 1)
  ELSE IF At(v, i + 1) = "#" /\ At(v, i + 2) = "x"
  THEN {i} \cup RefStarts(v, ScanDigits(v, i + 3, 0, 16).cur)
  ELSE IF At(v, i + 1) = "#"
  THEN {i} \cup RefStarts(v, ScanDigits(v, i + 2, 0, 10).cur)
  ELSE IF ScanName(v, i + 1) > Len(v) THEN {i}
  ELSE {i} \cup RefStarts(v, ScanName(v, i + 1) + 1)

\* the '&' at i starts a named reference that no ';' closes
Unterminated(v, i) == At(v, i + 1) # "#" /\ ScanName(v, i + 1) > Len(v)

\* the '&' at i starts a character reference with a character that is no
\* digit of its base
InvalidNumeric(v, i) ==
  IF At(v, i + 1) = "#" /\ At(v, i + 2) = "x" THEN ScanDigits(v, i + 3, 0, 16).err
  ELSE At(v, i + 1) = "#" /\ ScanDigits(v, i + 2, 0, 10).err

\* the call that parsed op.value, made on the characters before position i
ParsedBefore(i) ==
  IF op.name = "xmlStringLenGetNodeList"
  THEN xmlStringLenGetNodeList(op.before, 1, op.value, i - 1)
  ELSE xmlStringGetNodeList(op.before, 1, SubSeq(op.value, 1, i - 1))

\* The heap and the list returned are those built from the characters
\* before position i; where those characters make no node at all (a list
\* that is one empty text node, made because nothing else was) the call
\* returned NULL and made nothing.
BuiltBefore(i) ==
  IF /\ ParsedBefore(i).ret # NULL
     /\ ParsedBefore(i).h[ParsedBefore(i).ret].next = NULL
     /\ ParsedBefore(i).h[ParsedBefore(i).ret].content = <<>>
  THEN op.ret = NULL /\ heap = op.before
  ELSE op.ret = ParsedBefore(i).ret /\ heap = ParsedBefore(i).h

\* C14: a parse that meets a named reference with no closing ';' reports
\* XML_TREE_UNTERMINATED_ENTITY and returns the list built from the text
\* before that '&': the runs and references before it in order, nothing
\* after it.
C14_UnterminatedStops ==
  op.name \in {"xmlStringGetNodeList", "xmlStringLenGetNodeList"}
    => \A i \in RefStarts(ParsedText, 1) :
         Unterminated(ParsedText, i)
           => op.err = "XML_TREE_UNTERMINATED_ENTITY" /\ BuiltBefore(i)

C14_Witness ==
  /\ op.name = "xmlStringGetNodeList"
  /\ op.value = <<"a", "&", "e", ";", "&", "a">>
  /\ op.err = "XML_TREE_UNTERMINATED_ENTITY"
  /\ op.ret # NULL /\ heap[op.ret].content = <<"a">>
  /\ heap[heap[op.ret].next].type = "entref"
  /\ heap[heap[op.ret].next].next = NULL

\* C15: a parse that meets a character reference with an invalid digit
\* stops there: the list returned is the one built from the text before
\* that reference, and no character at or after the invalid one is added.
C15_InvalidNumericStops ==
  op.name \in {"xmlStringGetNodeList", "xmlStringLenGetNodeList"}
    => \A i \in RefStarts(ParsedText, 1) :
         (/\ InvalidNumeric(ParsedText, i)
          /\ \A j \in RefStarts(ParsedText, 1) : j < i => ~InvalidNumeric(ParsedText, j))
           => BuiltBefore(i)

\* C13: the content of an element that has a reference to a declared
\* entity among its children holds the entity's replacement text at the
\* place of the reference, as the value of the same chain of children read
\* as an attribute value does.
C13_ElementExpandsEntity ==
  (/\ op.name = "xmlNodeGetContent" /\ op.from = "xmlNewDocNode"
   /\ \E n \in Ids : /\ heap[n].st = "live" /\ heap[n].type = "entref"
                     /\ heap[n].parent = op.node /\ heap[n].name = EntityName)
    => op.str = xmlNodeListGetString(heap, 1, heap[op.node].children, TRUE)

\* ------------------------------------------------------ the buffer calls
\* One buffer, made by xmlBufferCreateSize or by xmlBufferCreateStatic over
\* a memory area, and the calls of the buffer API on it.  op holds the
\* buffer, the buffer before the last call, the string and the length the
\* call was given, and what the call returned.
StaticArea == <<"s", "t", "u">>

BufferStrings == {<<"a">>, <<"b", "c", "d">>}

BufOp(name, r, len) ==
  [name |-> name, buf |-> r.b, before |-> op.buf, str |-> NULLSTR, len |-> len,
   ret |-> r.ret, ok |-> r.ok]

InitBuf ==
  /\ heap = EmptyHeap
  /\ \E b \in {xmlBufferCreateSize(0, 2), xmlBufferCreateSize(10, 2),
               xmlBufferCreateStatic(StaticArea, 3, 1),
               xmlBufferCreateStatic(StaticArea, 2, 1)} :
       op = [name |-> "init", buf |-> b, before |-> b, str |-> NULLSTR, len |-> 0,
             ret |-> 0, ok |-> 0]
  /\ steps = 0

BufAdd ==
  /\ steps < MaxOps
  /\ \E str \in BufferStrings : \E len \in -2..1 : \E ok \in 0..1 :
       op' = [BufOp("xmlBufferAdd", xmlBufferAdd(op.buf, str, len, ok), len) EXCEPT !.str = str]
  /\ steps' = steps + 1 /\ UNCHANGED heap

BufAddHead ==
  /\ steps < MaxOps
  /\ \E str \in BufferStrings : \E len \in -2..1 : \E ok \in 0..1 :
       op' = [BufOp("xmlBufferAddHead", xmlBufferAddHead(op.buf, str, len, ok), len) EXCEPT !.str = str]
  /\ steps' = steps + 1 /\ UNCHANGED heap

BufCat ==
  /\ steps < MaxOps
  /\ \E str \in BufferStrings : \E ok \in 0..1 :
       op' = [BufOp("xmlBufferCat", xmlBufferCat(op.buf, str, ok), -1) EXCEPT !.str = str]
  /\ steps' = steps + 1 /\ UNCHANGED heap

BufCCat ==
  /\ steps < MaxOps
  /\ \E str \in BufferStrings : \E ok \in 0..1 :
       op' = [BufOp("xmlBufferCCat", xmlBufferCCat(op.buf, str, ok), -1) EXCEPT !.str = str]
  /\ steps' = steps + 1 /\ UNCHANGED heap

BufShrink ==
  /\ steps < MaxOps
  /\ \E len \in 0..2 :
       op' = BufOp("xmlBufferShrink", xmlBufferShrink(op.buf, len, 0), len)
  /\ steps' = steps + 1 /\ UNCHANGED heap

BufGrow ==
  /\ steps < MaxOps
  /\ \E len \in {1, 12} : \E ok \in 0..1 :
       op' = BufOp("xmlBufferGrow", xmlBufferGrow(op.buf, len, ok), len)
  /\ steps' = steps + 1 /\ UNCHANGED heap

BufResize ==
  /\ steps < MaxOps
  /\ \E size \in {4, 30} : \E ok \in 0..1 :
       op' = BufOp("xmlBufferResize", xmlBufferResize(op.buf, size, ok), size)
  /\ steps' = steps + 1 /\ UNCHANGED heap

BufSetAllocationScheme ==
  /\ steps < MaxOps
  /\ \E scheme \in {XML_BUFFER_ALLOC_DOUBLEIT, XML_BUFFER_ALLOC_EXACT} :
       op' = BufOp("xmlBufferSetAllocationScheme",
                   xmlBufferSetAllocationScheme(op.buf, scheme, 0), 0)
  /\ steps' = steps + 1 /\ UNCHANGED heap

BufEmpty ==
  /\ steps < MaxOps
  /\ op' = BufOp("xmlBufferEmpty", xmlBufferEmpty(op.buf, 0), 0)
  /\ steps' = steps + 1 /\ UNCHANGED heap

NextBuf ==
  \/ BufAdd \/ BufAddHead \/ BufCat \/ BufCCat \/ BufShrink \/ BufGrow
  \/ BufResize \/ BufSetAllocationScheme \/ BufEmpty

SpecBuf == InitBuf /\ [][NextBuf]_vars

\* the calls that change a buffer, xmlBufferEmpty aside
Mutators ==
  {"xmlBufferAdd", "xmlBufferAddHead", "xmlBufferCat", "xmlBufferCCat",
   "xmlBufferShrink", "xmlBufferGrow", "xmlBufferResize",
   "xmlBufferSetAllocationScheme"}

\* the content pointer, the length and the capacity are those before the
\* call
SameView == 
  /\ op.buf.content = op.before.content /\ op.buf.off = op.before.off
  /\ op.buf.use = op.before.use /\ op.buf.size = op.before.size

\* C19: every mutating call on a buffer made by xmlBufferCreateStatic
\* leaves its content pointer, length and capacity as they were and
\* reports failure.
C19_ImmutableUntouched ==
  (op.name \in Mutators /\ op.before.alloc = XML_BUFFER_ALLOC_IMMUTABLE)
    => /\ SameView
       /\ IF op.name = "xmlBufferResize" THEN op.ret = 0 ELSE op.ret < 0

\* C19, as the code has it: on an immutable buffer add, add-head, cat and
\* C-cat return -1 and resize returns 0, grow returns 0 and
\* set-allocation-scheme returns nothing, all leaving the buffer as it was,
\* the scheme included; shrink by 0 < len <= use succeeds: it moves the
\* content pointer len characters on and takes len off the length, the
\* capacity and the area staying as they were.
C19_ImmutableView ==
  (op.name \in Mutators /\ op.before.alloc = XML_BUFFER_ALLOC_IMMUTABLE)
    => /\ op.buf.alloc = XML_BUFFER_ALLOC_IMMUTABLE
       /\ op.buf.area = op.before.area
       /\ CASE op.name \in {"xmlBufferAdd", "xmlBufferAddHead", "xmlBufferCat",
                            "xmlBufferCCat"} -> SameView /\ op.ret = -1
            [] op.name \in {"xmlBufferResize", "xmlBufferGrow",
                            "xmlBufferSetAllocationScheme"} -> SameView /\ op.ret = 0
            [] op.name = "xmlBufferShrink" /\ op.len = 0 -> SameView /\ op.ret = 0
            [] op.name = "xmlBufferShrink" /\ op.len > op.before.use ->
                 SameView /\ op.ret = -1
            [] OTHER -> /\ op.ret = op.len
                        /\ op.buf.content = op.before.content
                        /\ op.buf.off = op.before.off + op.len
                        /\ op.buf.use = op.before.use - op.len
                        /\ op.buf.size = op.before.size

C19_Witness ==
  /\ op.name = "xmlBufferShrink" /\ op.before.alloc = XML_BUFFER_ALLOC_IMMUTABLE
  /\ op.len = 2 /\ op.ret = 2
  /\ op.before.use = 3 /\ op.buf.use = 1 /\ BufferBytes(op.buf) = <<"u">>

\* C20: a buffer call in which an allocation fails returns an error and
\* leaves the content and the length of the buffer as they were; nothing
\* of the argument has been written.
C20_FailedAllocationUntouched ==
  (op.name \in Mutators /\ op.ok = -1)
    => /\ IF op.name = "xmlBufferResize" THEN op.ret = 0 ELSE op.ret # 0
       /\ op.buf.use = op.before.use
       /\ BufferBytes(op.buf) = BufferBytes(op.before)

\* the call reported success
Succeeded ==
  CASE op.name \in {"xmlBufferAdd", "xmlBufferAddHead", "xmlBufferCat", "xmlBufferCCat"} ->
         op.ret = 0
    [] op.name \in {"xmlBufferShrink", "xmlBufferGrow"} -> op.ret >= 0
    [] op.name = "xmlBufferResize" -> op.ret = 1
    [] OTHER -> TRUE

\* the characters the call was asked to put into the buffer
Given == IF op.len < 0 THEN op.str ELSE SubSeq(op.str, 1, op.len)

\* the byte sequence after the call, from the one before it
AbstractBytes ==
  CASE op.name \in {"xmlBufferAdd", "xmlBufferCat", "xmlBufferCCat"} ->
         BufferBytes(op.before) \o Given
    [] op.name = "xmlBufferAddHead" -> Given \o BufferBytes(op.before)
    [] op.name = "xmlBufferShrink" ->
         SubSeq(BufferBytes(op.before), op.ret + 1, op.before.use)
    [] op.name = "xmlBufferEmpty" -> <<>>
    [] op.name = "init" -> <<>>
    [] OTHER -> BufferBytes(op.before)

\* content[use] is the zero sentinel
Terminated(b) ==
  /\ b.content # NULL
  /\ b.off + b.use + 1 <= Len(b.area)
  /\ b.area[b.off + b.use + 1] = NUL

\* C21: after every successful call on a growable buffer (creation
\* included) the first use bytes of the content are the bytes before the
\* call with the call's append, prepend or front-removal applied, use is
\* strictly less than size, and content[use] is the zero sentinel.
C21_AbstractBytes ==
  (op.buf # NULLBUF /\ op.buf.alloc # XML_BUFFER_ALLOC_IMMUTABLE /\ Succeeded)
    => /\ BufferBytes(op.buf) = AbstractBytes
       /\ op.buf.use < op.buf.size
       /\ Terminated(op.buf)

\* ==================================================== dictionary strings
\* A document may carry a dictionary (doc->dict) that owns interned
\* strings.  The owner of the string in a name or content field is NULL
\* when the field holds no string of its own, PRIVATE for a string from
\* xmlStrdup and the like, and the document whose dictionary holds it for an
\* interned string; own maps each node to the owners of its two fields and
\* dicts is the set of documents that have a dictionary.
PRIVATE == -1

\* cur->doc->dict, a dictionary being named by its document
DocDict(dicts, doc) == IF doc # NULL /\ doc \in dicts THEN doc ELSE NULL

\* xmlDictOwns (dict.c) on a string with the given owner
xmlDictOwns(dict, owner) == IF dict # NULL /\ owner = dict THEN 1 ELSE 0

\* DICT_FREE(str): whether it calls xmlFree on the string
DICT_FREE(dict, owner) ==
  owner # NULL /\ (dict = NULL \/ xmlDictOwns(dict, owner) = 0)

\* The strings on which the free functions call xmlFree, as node and field.
RECURSIVE FreeNodeListStrings(_, _, _, _)
RECURSIVE FreePropListStrings(_, _, _, _)

FreePropStrings(h, own, dicts, cur) ==
  IF cur = NULL THEN {}
  ELSE (IF h[cur].children # NULL
        THEN FreeNodeListStrings(h, own, dicts, h[cur].children) ELSE {})
       \cup (IF DICT_FREE(DocDict(dicts, h[cur].doc), own[cur].name)
             THEN {<<cur, "name">>} ELSE {})

FreePropListStrings(h, own, dicts, cur) ==
  IF cur = NULL THEN {}
  ELSE FreePropStrings(h, own, dicts, cur)
       \cup FreePropListStrings(h, own, dicts, h[cur].next)

\* the statements of xmlFreeNode and of the loop of xmlFreeNodeList for one
\* node, dict being the dictionary the function looked up
FreeOneNodeStrings(h, own, dicts, cur, dict) ==
  (IF h[cur].children # NULL /\ h[cur].type # "entref"
   THEN FreeNodeListStrings(h, own, dicts, h[cur].children) ELSE {})
  \cup (IF h[cur].type = "elem" /\ h[cur].properties # NULL
        THEN FreePropListStrings(h, own, dicts, h[cur].properties) ELSE {})
  \cup (IF h[cur].type \notin {"elem", "entref"} /\ DICT_FREE(dict, own[cur].content)
        THEN {<<cur, "content">>} ELSE {})
  \cup (IF h[cur].type # "text" /\ DICT_FREE(dict, own[cur].name)
        THEN {<<cur, "name">>} ELSE {})

RECURSIVE FreeListLoopStrings(_, _, _, _, _)
FreeListLoopStrings(h, own, dicts, cur, dict) ==
  IF cur = NULL THEN {}
  ELSE FreeOneNodeStrings(h, own, dicts, cur, dict)
       \cup FreeListLoopStrings(h, own, dicts, h[cur].next, dict)

FreeNodeListStrings(h, own, dicts, cur) ==
  IF cur = NULL THEN {}
  ELSE IF h[cur].type = "ns" THEN {}
  ELSE FreeListLoopStrings(h, own, dicts, cur, DocDict(dicts, h[cur].doc))

FreeNodeStrings(h, own, dicts, cur) ==
  IF cur = NULL THEN {}
  ELSE IF h[cur].type = "ns" THEN {}
  ELSE IF h[cur].type = "attr" THEN FreePropStrings(h, own, dicts, cur)
  ELSE FreeOneNodeStrings(h, own, dicts, cur, DocDict(dicts, h[cur].doc))

\* xmlNodeSetContent on a leaf: whether it calls xmlFree(cur->content)
SetContentFrees(h, own, dicts, cur) ==
  /\ own[cur].content # NULL
  /\ ~(/\ h[cur].doc # NULL /\ DocDict(dicts, h[cur].doc) # NULL
       /\ ~(xmlDictOwns(DocDict(dicts, h[cur].doc), own[cur].content) = 1))

\* xmlNodeSetContentLen on a leaf: whether it calls xmlFree(cur->content)
SetContentLenFrees(h, own, dicts, cur) == own[cur].content # NULL

\* xmlNodeAddContentLen and xmlTextConcat on a leaf: whether the new
\* content comes from xmlStrncatNew, which leaves the old string alone,
\* rather than from xmlStrncat, which reallocates it
AddContentCopies(h, own, dicts, cur) ==
  /\ h[cur].doc # NULL /\ DocDict(dicts, h[cur].doc) # NULL
  /\ xmlDictOwns(DocDict(dicts, h[cur].doc), own[cur].content) = 1

\* xmlNodeSetContentLen on a node of the kinds that carry a content
xmlNodeSetContentLen(h, cur, content, len, z) ==
  IF cur = NULL THEN h
  ELSE IF h[cur].type \in ContentKinds
  THEN xmlNodeSetContent(h, cur, IF content # NULLSTR THEN SubSeq(content, 1, len)
                                 ELSE NULLSTR, z)
  ELSE h

\* xmlTextConcat; the heap after it and the value returned
xmlTextConcat(h, node, content, len) ==
  IF node = NULL THEN R(h, -1)
  ELSE IF h[node].type # "text" THEN R(h, -1)
  ELSE R(W(h, node, "content",
           IF content = NULLSTR \/ len = 0 THEN h[node].content
           ELSE xmlStrcat(h[node].content, SubSeq(content, 1, len))), 
         IF h[node].content = NULLSTR /\ (content = NULLSTR \/ len = 0) THEN -1 ELSE 0)

\* ------------------------------------------- the calls on owned strings
\* Document 1 has a dictionary, document 2 has none.  As a parser leaves
\* them, the names of the elements 3 and 5 and of the attribute 6 of
\* document 1 are interned (3 and 5 share one string), and so is the content
\* of the text 4 below 3; the name of element 7 of document 2 is private.
SceneDict ==
  LET sDocs(g) == xmlNewDoc(xmlNewDoc(g, 1), 2)
      sNodes(g) == xmlNewDocNode(xmlNewDocNode(xmlNewDocNode(g, 3, 1, NULL, "n"),
                                               5, 1, NULL, "n"),
                                 7, 2, NULL, "m")
      sText(g) == xmlAddChild(xmlNewDocText(g, 4, 1, <<"t">>), 3, 4, FALSE).h
      sAttr(g) == xmlNewDocProp(g, 6, 1, "p")
  IN sAttr(sText(sNodes(sDocs(EmptyHeap))))

NoOwner == [name |-> NULL, content |-> NULL]

SceneOwners ==
  [n \in Ids |-> CASE n \in {3, 5, 6} -> [name |-> 1, content |-> NULL]
                   [] n = 4 -> [name |-> NULL, content |-> 1]
                   [] n = 7 -> [name |-> PRIVATE, content |-> NULL]
                   [] OTHER -> NoOwner]

\* the strings among those freed that a dictionary owned, by owner and value
LostNames(h, own, freed) ==
  {<<own[s[1]].name, h[s[1]].name>> : s \in {t \in freed : t[2] = "name" /\ t[3] > 0}}

LostContents(h, own, freed) ==
  {<<own[s[1]].content, h[s[1]].content>> :
     s \in {t \in freed : t[2] = "content" /\ t[3] > 0}}

\* the state after a call: the call and its node, the owners, what the
\* call freed (node, field, owner), the owner and value of the node's
\* content before the call, and whether the call reallocated that string
DictDone(name, node, arg, h, own, freed, inplace) ==
  /\ heap' = h
  /\ op' = [name |-> name, node |-> node, arg |-> arg, own |-> own,
            dicts |-> op.dicts, freed |-> freed,
            lostNames |-> op.lostNames \cup LostNames(heap, op.own, freed),
            lostContents |-> op.lostContents \cup LostContents(heap, op.own, freed),
            old |-> IF node = NULL THEN NULL ELSE op.own[node].content,
            oldval |-> IF node = NULL THEN NULLSTR ELSE heap[node].content,
            inplace |-> inplace]
  /\ steps' = steps + 1

WithOwner(own, n, f, o) == [own EXCEPT ![n][f] = o]

Slots(S) == {<<s[1], s[2], op.own[s[1]][s[2]]>> : s \in S}

DictNewDocNode ==
  /\ steps < MaxOps /\ Malloc(heap) # NULL
  /\ \E doc \in {1, 2} :
       DictDone("xmlNewDocNode", Malloc(heap), NULLSTR,
                xmlNewDocNode(heap, Malloc(heap), doc, NULL, "n"),
                WithOwner(op.own, Malloc(heap), "name",
                          IF DocDict(op.dicts, doc) # NULL THEN doc ELSE PRIVATE),
                {}, FALSE)

DictNewDocText ==
  /\ steps < MaxOps /\ Malloc(heap) # NULL
  /\ \E doc \in {1, 2} :
       DictDone("xmlNewDocText", Malloc(heap), <<"t">>,
                xmlNewDocText(heap, Malloc(heap), doc, <<"t">>),
                WithOwner(op.own, Malloc(heap), "content", PRIVATE), {}, FALSE)

\* xmlAddChild of a detached element under an element that is a root
DictAddChild ==
  /\ steps < MaxOps
  /\ \E parent, cur \in {n \in Ids : /\ heap[n].st = "live" /\ heap[n].type = "elem"
                                     /\ heap[n].parent = NULL} :
       /\ parent # cur
       /\ DictDone("xmlAddChild", cur, NULLSTR, xmlAddChild(heap, parent, cur, FALSE).h,
                   op.own, {}, FALSE)

DictUnlinkNode ==
  /\ steps < MaxOps
  /\ \E cur \in {n \in Ids : heap[n].st = "live" /\ heap[n].parent # NULL} :
       DictDone("xmlUnlinkNode", cur, NULLSTR, xmlUnlinkNode(heap, cur), op.own, {}, FALSE)

DictFreeNode ==
  /\ steps < MaxOps
  /\ \E cur \in {n \in Ids : /\ heap[n].st = "live" /\ heap[n].type # "doc"
                             /\ heap[n].parent = NULL} :
       DictDone("xmlFreeNode", cur, NULLSTR, xmlFreeNode(heap, cur, FALSE), op.own,
                Slots(FreeNodeStrings(heap, op.own, op.dicts, cur)), FALSE)

DictFreeNodeList ==
  /\ steps < MaxOps
  /\ \E cur \in {n \in Ids : /\ heap[n].st = "live" /\ heap[n].type \in {"elem", "text"}
                             /\ heap[n].parent = NULL} :
       DictDone("xmlFreeNodeList", cur, NULLSTR, xmlFreeNodeList(heap, cur, FALSE), op.own,
                Slots(FreeNodeListStrings(heap, op.own, op.dicts, cur)), FALSE)

DictSetContent ==
  /\ steps < MaxOps
  /\ \E cur \in {n \in Ids : heap[n].st = "live" /\ heap[n].type = "text"} :
       \E content \in {NULLSTR, <<"a">>} :
         DictDone("xmlNodeSetContent", cur, content,
                  xmlNodeSetContent(heap, cur, content, FALSE),
                  WithOwner(op.own, cur, "content",
                            IF content # NULLSTR THEN PRIVATE ELSE NULL),
                  IF SetContentFrees(heap, op.own, op.dicts, cur)
                  THEN Slots({<<cur, "content">>}) ELSE {},
                  FALSE)

DictSetContentLen ==
  /\ steps < MaxOps
  /\ \E cur \in {n \in Ids : heap[n].st = "live" /\ heap[n].type = "text"} :
       \E content \in {NULLSTR, <<"a">>} :
         DictDone("xmlNodeSetContentLen", cur, content,
                  xmlNodeSetContentLen(heap, cur, content, 1, FALSE),
                  WithOwner(op.own, cur, "content",
                            IF content # NULLSTR THEN PRIVATE ELSE NULL),
                  IF SetContentLenFrees(heap, op.own, op.dicts, cur)
                  THEN Slots({<<cur, "content">>}) ELSE {},
                  FALSE)

\* a string that xmlStrncat reallocates is gone for whoever else holds it
DictAddContentLen ==
  /\ steps < MaxOps
  /\ \E cur \in {n \in Ids : heap[n].st = "live" /\ heap[n].type = "text"} :
       DictDone("xmlNodeAddContentLen", cur, <<"a">>,
                xmlNodeAddContentLen(heap, cur, <<"a">>, 1),
                WithOwner(op.own, cur, "content", PRIVATE),
                IF AddContentCopies(heap, op.own, op.dicts, cur) THEN {}
                ELSE Slots({<<cur, "content">>}),
                ~AddContentCopies(heap, op.own, op.dicts, cur))

DictTextConcat ==
  /\ steps < MaxOps
  /\ \E cur \in {n \in Ids : heap[n].st = "live" /\ heap[n].type = "text"} :
       DictDone("xmlTextConcat", cur, <<"a">>,
                xmlTextConcat(heap, cur, <<"a">>, 1).h,
                WithOwner(op.own, cur, "content", PRIVATE),
                IF AddContentCopies(heap, op.own, op.dicts, cur) THEN {}
                ELSE Slots({<<cur, "content">>}),
                ~AddContentCopies(heap, op.own, op.dicts, cur))

InitDict ==
  /\ heap = SceneDict
  /\ op = [name |-> "init", node |-> NULL, arg |-> NULLSTR, own |-> SceneOwners,
           dicts |-> {1}, freed |-> {}, lostNames |-> {}, lostContents |-> {},
           old |-> NULL, oldval |-> NULLSTR, inplace |-> FALSE]
  /\ steps = 0

NextDict ==
  \/ DictNewDocNode \/ DictNewDocText \/ DictAddChild \/ DictUnlinkNode
  \/ DictFreeNode \/ DictFreeNodeList \/ DictSetContent \/ DictSetContentLen
  \/ DictAddContentLen \/ DictTextConcat

SpecDict == InitDict /\ [][NextDict]_vars

\* C16: freeing a node never calls xmlFree on a string that a dictionary
\* owns, so after it every live node whose name is interned still has it.
C16_FreeKeepsDictStrings ==
  op.name \in {"xmlFreeNode", "xmlFreeNodeList"}
    => /\ \A s \in op.freed : s[3] = PRIVATE
       /\ \A n \in Ids :
            (heap[n].st = "live" /\ op.own[n].name > 0)
              => <<op.own[n].name, heap[n].name>> \notin op.lostNames

\* C17: replacing the content of a text node frees the old string exactly
\* when it is private: an interned one is not freed, a private one is.
C17_SetContentFreesPrivate ==
  op.name \in {"xmlNodeSetContent", "xmlNodeSetContentLen"}
    => /\ op.old > 0 => op.freed = {}
       /\ op.old = PRIVATE => op.freed = {<<op.node, "content", PRIVATE>>}

\* C18: appending to a text node whose content is interned writes the
\* result to a fresh private string: the dictionary's string is neither
\* reallocated nor lost, and the content is the old content followed by
\* the appended characters.
C18_AppendKeepsDictStrings ==
  (op.name \in {"xmlNodeAddContentLen", "xmlTextConcat"} /\ op.old > 0)
    => /\ ~op.inplace
       /\ <<op.old, op.oldval>> \notin op.lostContents
       /\ op.own[op.node].content = PRIVATE
       /\ heap[op.node].content = op.oldval \o op.arg

\* ============================================== contracts of the tree calls
\* a call of xmlUnlinkNode on a tree in shape
UnlinkedNode ==
  /\ op'.name = "xmlUnlinkNode"
  /\ TreeOK(heap)

\* no chain of h passes through n: no sibling link and no first, last or
\* attribute-head pointer names it
OffChains(h, n) ==
  \A m \in TreeNodes(h) :
    \A f \in {"children", "last", "properties", "prev", "next"} : h[m][f] # n

\* C22: xmlUnlinkNode(n) leaves n with null parent, prev and next; its
\* former neighbours are linked to each other; the former parent's children,
\* last and properties pointers skip n; no chain names n any more; n's own
\* children and attributes, and every node that was not its parent or its
\* neighbour, are as they were; a second xmlUnlinkNode(n) changes nothing.
C22_UnlinkDetaches ==
  [][UnlinkedNode =>
       LET n == op'.a
           p == heap[n].parent
           pv == heap[n].prev
           nx == heap[n].next
       IN /\ Unlinked(heap', n)
          /\ pv # NULL => heap'[pv].next = nx
          /\ nx # NULL => heap'[nx].prev = pv
          /\ p # NULL =>
               /\ heap'[p].children = (IF heap[p].children = n THEN nx ELSE heap[p].children)
               /\ heap'[p].last = (IF heap[p].last = n THEN pv ELSE heap[p].last)
               /\ heap'[p].properties =
                    (IF heap[p].properties = n THEN nx ELSE heap[p].properties)
          /\ OffChains(heap', n)
          /\ heap'[n] = [heap[n] EXCEPT !.parent = NULL, !.prev = NULL, !.next = NULL]
          /\ \A m \in Ids \ {n, p, pv, nx} : heap'[m] = heap[m]
          /\ \A m \in Subtree(heap, n) \ {n} : heap'[m] = heap[m]
          /\ xmlUnlinkNode(heap', n) = heap'
          /\ TreeOK(heap')]_vars

\* element c, the first of the two children of b, has been unlinked: the
\* text node is now b's only child
C22_Witness ==
  /\ op.name = "xmlUnlinkNode" /\ op.a = 5 /\ steps = 1
  /\ heap[4].type = "elem" /\ heap[4].name = "b"
  /\ heap[4].children = 6 /\ heap[4].last = 6
  /\ heap[6].prev = NULL /\ heap[6].parent = 4
  /\ Unlinked(heap, 5) /\ heap[5].type = "elem"

\* the sibling chain from n on, in order
RECURSIVE SiblingSeq(_, _, _)
SiblingSeq(h, n, fuel) ==
  IF n = NULL \/ fuel = 0 THEN <<>>
  ELSE <<n>> \o SiblingSeq(h, h[n].next, fuel - 1)

\* the chain of p that holds nodes of n's kind: its attributes or its
\* children
ChainOf(h, p, n) ==
  SiblingSeq(h, IF h[n].type = "attr" THEN h[p].properties ELSE h[p].children, NumNodes)

\* the sequence s without x, and with every old replaced by new
RECURSIVE Without(_, _)
Without(s, x) ==
  IF s = <<>> THEN <<>>
  ELSE IF Head(s) = x THEN Without(Tail(s), x)
  ELSE <<Head(s)>> \o Without(Tail(s), x)

Substituted(s, old, new) == [i \in 1..Len(s) |-> IF s[i] = old THEN new ELSE s[i]]

\* a call xmlReplaceNode(old, new) on a tree in shape with old linked under
\* a parent and new of a compatible kind
ReplacedNode ==
  /\ op'.name = "xmlReplaceNode"
  /\ TreeOK(heap)
  /\ op'.a # op'.b
  /\ heap[op'.a].parent # NULL
  /\ SameChainKind(heap, op'.a, op'.b)

\* C23: xmlReplaceNode(old, new) puts new at old's exact position: new gets
\* old's former parent, prev and next, the neighbours and the parent's
\* first/last/attribute-head pointers that named old now name new, every
\* other sibling keeps its place, and old is returned with null parent, prev
\* and next and is not freed.
C23_ReplaceInPlace ==
  [][ReplacedNode =>
       LET old == op'.a
           new == op'.b
           p == heap[old].parent
       IN /\ heap'[new].parent = p
          /\ heap'[new].prev = heap[old].prev
          /\ heap'[new].next = heap[old].next
          /\ heap[old].prev # NULL => heap'[heap[old].prev].next = new
          /\ heap[old].next # NULL => heap'[heap[old].next].prev = new
          /\ heap[p].children = old => heap'[p].children = new
          /\ heap[p].last = old => heap'[p].last = new
          /\ heap[p].properties = old => heap'[p].properties = new
          /\ ChainOf(heap', p, new) = Substituted(Without(ChainOf(heap, p, old), new), old, new)
          /\ Unlinked(heap', old) /\ Live(heap', old)
          /\ op'.ret = old]_vars

\* C23, as the code has it: new is first unlinked from its own place, so
\* when new was old's neighbour the neighbour on that side is the one new
\* had: new gets old's parent and the prev and next old has once new is out
\* of the chain; the parent's chain is the former one without new's former
\* entry and with new in old's place, its first/last/attribute-head pointers
\* name the ends of that chain; old is returned detached and not freed.
C23_ReplaceAtPosition ==
  [][ReplacedNode =>
       LET old == op'.a
           new == op'.b
           p == heap[old].parent
           pv == IF heap[old].prev = new THEN heap[new].prev ELSE heap[old].prev
           nx == IF heap[old].next = new THEN heap[new].next ELSE heap[old].next
           chain == Substituted(Without(ChainOf(heap, p, old), new), old, new)
       IN /\ heap'[new].parent = p
          /\ heap'[new].prev = pv
          /\ heap'[new].next = nx
          /\ pv # NULL => heap'[pv].next = new
          /\ nx # NULL => heap'[nx].prev = new
          /\ ChainOf(heap', p, new) = chain
          /\ IF heap[new].type = "attr"
             THEN heap'[p].properties = chain[1]
             ELSE heap'[p].children = chain[1] /\ heap'[p].last = chain[Len(chain)]
          /\ \A i \in 1..Len(chain) : heap'[chain[i]].parent = p
          /\ Unlinked(heap', old) /\ Live(heap', old)
          /\ OffChains(heap', old)
          /\ op'.ret = old
          /\ TreeOK(heap')]_vars

\* the text node, second child of b, has been replaced by element a, which
\* came from under document 1
C23_Witness ==
  /\ op.name = "xmlReplaceNode" /\ op.a = 6 /\ op.b = 3 /\ op.ret = 6 /\ steps = 1
  /\ heap[4].name = "b" /\ heap[4].children = 5 /\ heap[4].last = 3
  /\ heap[3].parent = 4 /\ heap[3].prev = 5 /\ heap[5].next = 3
  /\ heap[1].children = NULL
  /\ Unlinked(heap, 6) /\ Live(heap, 6)

\* a call xmlReplaceNode(old, new) where exactly one of the two is an
\* attribute
ReplacedAcrossKinds ==
  /\ op'.name = "xmlReplaceNode"
  /\ ~SameChainKind(heap, op'.a, op'.b)

\* C24: xmlReplaceNode refuses to replace an attribute with a non-attribute
\* and a non-attribute with an attribute: no link of any node changes (the
\* whole heap is as it was), and old is returned when it had a parent, NULL
\* when it had none.
C24_ReplaceRefusesAcrossKinds ==
  [][ReplacedAcrossKinds =>
       /\ heap' = heap
       /\ op'.ret = (IF heap[op'.a].parent = NULL THEN NULL ELSE op'.a)]_vars

\* a linked attribute was to be replaced by a linked text node: both are
\* where they were
C24_Witness ==
  /\ op.name = "xmlReplaceNode" /\ op.ret = op.a
  /\ heap[op.a].type = "attr" /\ heap[op.b].type = "text"
  /\ heap[op.a].parent # NULL /\ heap[heap[op.a].parent].type = "elem"
  /\ op.a \in Chain(heap, heap[heap[op.a].parent].properties, "next")
  /\ heap[op.b].parent # NULL
  /\ op.b \in Chain(heap, heap[heap[op.b].parent].children, "next")

\* --------------------------------------------- calls with a NULL argument
\* The eight relinking calls with NULL for at least one argument, on the
\* trees of Init and on what these calls leave.
OrNull(S) == S \cup {NULL}

WithNull(a, b) == a = NULL \/ b = NULL

NullUnlinkNode ==
  /\ Ready
  /\ Done("xmlUnlinkNode", NULL, NULL, R(xmlUnlinkNode(heap, NULL), NULL))

NullAddChild ==
  /\ Ready
  /\ \E parent \in OrNull(ParentArgs(heap)), cur \in OrNull(NodeArgs(heap)) :
       /\ WithNull(parent, cur)
       /\ Done("xmlAddChild", parent, cur, xmlAddChild(heap, parent, cur, FALSE))

NullAddChildList ==
  /\ Ready
  /\ \E parent \in OrNull(ParentArgs(heap)), cur \in OrNull(NodeArgs(heap)) :
       /\ WithNull(parent, cur)
       /\ Done("xmlAddChildList", parent, cur, xmlAddChildList(heap, parent, cur, FALSE))

NullAddNextSibling ==
  /\ Ready
  /\ \E cur \in OrNull(NodeArgs(heap)), elem \in OrNull(NodeArgs(heap)) :
       /\ WithNull(cur, elem)
       /\ Done("xmlAddNextSibling", cur, elem, xmlAddNextSibling(heap, cur, elem, FALSE))

NullAddPrevSibling ==
  /\ Ready
  /\ \E cur \in OrNull(NodeArgs(heap)), elem \in OrNull(NodeArgs(heap)) :
       /\ WithNull(cur, elem)
       /\ Done("xmlAddPrevSibling", cur, elem, xmlAddPrevSibling(heap, cur, elem, FALSE))

NullAddSibling ==
  /\ Ready
  /\ \E cur \in OrNull(NodeArgs(heap)), elem \in OrNull(NodeArgs(heap)) :
       /\ WithNull(cur, elem)
       /\ Done("xmlAddSibling", cur, elem, xmlAddSibling(heap, cur, elem, FALSE))

NullReplaceNode ==
  /\ Ready
  /\ \E old \in OrNull(NodeArgs(heap)), cur \in OrNull(NodeArgs(heap)) :
       /\ WithNull(old, cur)
       /\ Done("xmlReplaceNode", old, cur, xmlReplaceNode(heap, old, cur))

NullDocSetRootElement ==
  /\ Ready
  /\ \E doc \in OrNull({n \in TreeNodes(heap) : heap[n].type = "doc"}),
        root \in OrNull(NodeArgs(heap)) :
       /\ WithNull(doc, root)
       /\ Done("xmlDocSetRootElement", doc, root,
               xmlDocSetRootElement(heap, doc, root, FALSE))

NextNull ==
  \/ NullUnlinkNode
  \/ NullAddChild
  \/ NullAddChildList
  \/ NullAddNextSibling
  \/ NullAddPrevSibling
  \/ NullAddSibling
  \/ NullReplaceNode
  \/ NullDocSetRootElement

SpecNull == Init /\ [][NextNull]_vars

\* C25: every tree-mutation call given a null argument returns null (or
\* nothing) and leaves every tree exactly as it was.
C25_NullLeavesTrees ==
  [][WithNull(op'.a, op'.b) => heap' = heap /\ op'.ret = NULL]_vars

\* xmlReplaceNode(old, NULL) with old linked under a parent
ReplacedByNull ==
  /\ op'.name = "xmlReplaceNode"
  /\ op'.a # NULL /\ op'.b = NULL
  /\ heap[op'.a].parent # NULL

\* C25, as the code has it: every tree-mutation call given a null argument
\* returns null (or nothing) and leaves every tree as it was, except
\* xmlReplaceNode(old, NULL) with old linked under a parent, which unlinks
\* old (as xmlUnlinkNode does) and returns it.
C25_NullLeavesTreesButReplace ==
  [][WithNull(op'.a, op'.b) =>
       IF ReplacedByNull
       THEN LET old == op'.a
                p == heap[old].parent
                pv == heap[old].prev
                nx == heap[old].next
            IN /\ op'.ret = old
               /\ heap'[old] = [heap[old] EXCEPT !.parent = NULL, !.prev = NULL, !.next = NULL]
               /\ OffChains(heap', old)
               /\ pv # NULL => heap'[pv].next = nx
               /\ nx # NULL => heap'[nx].prev = pv
               /\ \A m \in Ids \ {old, p, pv, nx} : heap'[m] = heap[m]
               /\ TreeOK(heap')
       ELSE heap' = heap /\ op'.ret = NULL]_vars

\* element c, first child of b, was replaced by NULL: it is detached and
\* the text node is b's only child
C25_Witness ==
  /\ op.name = "xmlReplaceNode" /\ op.a = 5 /\ op.b = NULL /\ op.ret = 5 /\ steps = 1
  /\ heap[4].name = "b" /\ heap[4].children = 6 /\ heap[4].last = 6
  /\ Unlinked(heap, 5) /\ Live(heap, 5)

\* ------------------------------------------------------ the constructors
xmlStringComment == "comment"

xmlNewComment(h, n, content) ==
  [h EXCEPT ![n] = [ZeroNode EXCEPT !.st = "live", !.type = "comment",
                                    !.name = xmlStringComment,
                                    !.content = IF content # NULLSTR THEN xmlStrdup(content)
                                                ELSE NULLSTR]]

xmlNewDocPI(h, n, doc, name, content) ==
  [h EXCEPT ![n] = [ZeroNode EXCEPT !.st = "live", !.type = "pi", !.name = name,
                                    !.content = IF content # NULLSTR THEN xmlStrdup(content)
                                                ELSE NULLSTR,
                                    !.doc = doc]]

xmlNewCDataBlock(h, n, doc, content, len) ==
  [h EXCEPT ![n] = [ZeroNode EXCEPT !.st = "live", !.type = "cdata", !.doc = doc,
                                    !.content = IF content # NULLSTR
                                                THEN SubSeq(content, 1, len) ELSE NULLSTR]]

xmlNewDocFragment(h, n, doc) ==
  [h EXCEPT ![n] = [ZeroNode EXCEPT !.st = "live", !.type = "frag", !.doc = doc]]

xmlNewDtd(h, doc, name) ==
  IF doc # NULL /\ h[doc].extSubset # NULL THEN R(h, NULL)
  ELSE IF Malloc(h) = NULL THEN R(h, NULL)
  ELSE LET cur == Malloc(h)
           sNew(g) == [g EXCEPT ![cur] = [ZeroNode EXCEPT !.st = "live", !.type = "dtd",
                                                          !.name = name, !.doc = doc]]
           sSubset(g) == IF doc # NULL THEN W(g, doc, "extSubset", cur) ELSE g
       IN R(sSubset(sNew(h)), cur)

\* a variant that does not set the prev pointer of the new attribute
xmlNewPropInternal_NoPrev(h, node, ns, name, value) ==
  IF node # NULL /\ h[node].type # "elem" THEN R(h, NULL)
  ELSE IF Malloc(h) = NULL THEN R(h, NULL)
  ELSE LET cur == Malloc(h)
           doc == IF node # NULL THEN h[node].doc ELSE NULL
           sNew(g) == [g EXCEPT ![cur] = [ZeroNode EXCEPT !.st = "live", !.type = "attr",
                                                          !.parent = node, !.doc = doc,
                                                          !.ns = ns, !.name = name]]
           sValue(g) ==
             IF value = NULLSTR THEN g
             ELSE NewDocPropValue(
                    xmlStringGetNodeList(g, doc, xmlEncodeEntitiesReentrant(value)), cur).h
           sAppend(g, prev) == W(g, prev, "next", cur)
           sLink(g) ==
             IF node = NULL THEN g
             ELSE IF g[node].properties = NULL THEN W(g, node, "properties", cur)
             ELSE sAppend(g, LastOfChain(g, g[node].properties, NumNodes))
       IN R(sLink(sValue(sNew(h))), cur)

\* xmlNewPropInternal with eatname = 0
xmlNewPropInternal(h, node, ns, name, value) ==
  IF node # NULL /\ h[node].type # "elem" THEN R(h, NULL)
  ELSE IF Malloc(h) = NULL THEN R(h, NULL)
  ELSE LET cur == Malloc(h)
           doc == IF node # NULL THEN h[node].doc ELSE NULL
           sNew(g) == [g EXCEPT ![cur] = [ZeroNode EXCEPT !.st = "live", !.type = "attr",
                                                          !.parent = node, !.doc = doc,
                                                          !.ns = ns, !.name = name]]
           sValue(g) ==
             IF value = NULLSTR THEN g
             ELSE NewDocPropValue(
                    xmlStringGetNodeList(g, doc, xmlEncodeEntitiesReentrant(value)), cur).h
           sAppend(g, prev) == W(W(g, prev, "next", cur), cur, "prev", prev)
           sLink(g) ==
             IF node = NULL THEN g
             ELSE IF g[node].properties = NULL THEN W(g, node, "properties", cur)
             ELSE sAppend(g, LastOfChain(g, g[node].properties, NumNodes))
       IN R(sLink(sValue(sNew(h))), cur)

\* xmlNewProp; a NULL name is the empty name of a zeroed block
xmlNewProp(h, node, name, value) ==
  IF name = "" THEN R(h, NULL)
  ELSE xmlNewPropInternal(h, node, NULL, name, value)

\* A document with an entity declaration and the root element
\* <n xmlns:x="u1" p="">t</n>, and a detached element m
SceneNew ==
  LET sNodes(g) == xmlNewDocProp(xmlNewDocNode(xmlNewDoc(g, 1), 2, 1, NULL, "n"), 3, 1, "p")
      sTree(g) == xmlAddChild(xmlAddChild(g, 1, 2, FALSE).h, 2, 3, FALSE).h
      sDecl(g) == xmlNewNs(g, 2, U1, PrefixX).h
      sText(g) == xmlAddChild(xmlNewDocText(g, 5, 1, <<"t">>), 2, 5, FALSE).h
      sEntity(g) == [g EXCEPT ![6] = [ZeroNode EXCEPT !.st = "live", !.type = "entdecl",
                                                      !.name = EntityName,
                                                      !.content = <<"v", "w">>, !.doc = 1]]
  IN xmlNewNode(sEntity(sText(sDecl(sTree(sNodes(EmptyHeap))))), 7, NULL, "m")

\* the owner a constructor may be given: none, the document, an element
\* with or without attributes and declarations, a text node
Owners == {NULL, 1, 2, 5, 7}

Contents == {NULLSTR, <<"v">>}

\* a constructor that returns the block it allocated
Built(h) == R(h, Malloc(heap))

NewDocNode ==
  /\ steps < MaxOps /\ Malloc(heap) # NULL
  /\ \E doc \in {NULL, 1} :
       Done("xmlNewDocNode", doc, NULL,
            Built(xmlNewDocNode(heap, Malloc(heap), doc, NULL, "m")))

NewDocText ==
  /\ steps < MaxOps /\ Malloc(heap) # NULL
  /\ \E doc \in {NULL, 1}, content \in Contents :
       Done("xmlNewDocText", doc, NULL,
            Built(xmlNewDocText(heap, Malloc(heap), doc, content)))

NewComment ==
  /\ steps < MaxOps /\ Malloc(heap) # NULL
  /\ \E content \in Contents :
       Done("xmlNewComment", NULL, NULL,
            Built(xmlNewComment(heap, Malloc(heap), content)))

NewDocPI ==
  /\ steps < MaxOps /\ Malloc(heap) # NULL
  /\ \E doc \in {NULL, 1}, content \in Contents :
       Done("xmlNewDocPI", doc, NULL,
            Built(xmlNewDocPI(heap, Malloc(heap), doc, "m", content)))

NewCDataBlock ==
  /\ steps < MaxOps /\ Malloc(heap) # NULL
  /\ \E doc \in {NULL, 1}, content \in Contents :
       Done("xmlNewCDataBlock", doc, NULL,
            Built(xmlNewCDataBlock(heap, Malloc(heap), doc, content, 1)))

NewReference ==
  /\ steps < MaxOps /\ Malloc(heap) # NULL
  /\ \E doc \in {NULL, 1}, name \in {EntityName, <<"&", "e", ";">>, <<"a", "m", "p">>} :
       Done("xmlNewReference", doc, NULL,
            Built(xmlNewReference(heap, Malloc(heap), doc, name)))

NewDocFragment ==
  /\ steps < MaxOps /\ Malloc(heap) # NULL
  /\ \E doc \in {NULL, 1} :
       Done("xmlNewDocFragment", doc, NULL,
            Built(xmlNewDocFragment(heap, Malloc(heap), doc)))

NewProp ==
  /\ steps < MaxOps
  /\ \E node \in Owners \ {1}, value \in Contents :
       Done("xmlNewProp", node, NULL, xmlNewProp(heap, node, "q", value))

NewNsDecl ==
  /\ steps < MaxOps
  /\ \E node \in Owners \ {1}, prefix \in {NULLSTR, PrefixX} :
       Done("xmlNewNs", node, NULL, xmlNewNs(heap, node, U2, prefix))

NewDtd ==
  /\ steps < MaxOps
  /\ \E doc \in {NULL, 1} :
       Done("xmlNewDtd", doc, NULL, xmlNewDtd(heap, doc, "n"))

NextNew ==
  \/ NewDocNode \/ NewDocText \/ NewComment \/ NewDocPI \/ NewCDataBlock
  \/ NewReference \/ NewDocFragment \/ NewProp \/ NewNsDecl \/ NewDtd

InitNew == heap = SceneNew /\ op = NoOp /\ steps = 0

SpecNew == InitNew /\ [][NextNew]_vars

\* the blocks that were allocated before the call
Existing == {m \in Ids : heap[m].st = "live"}

\* the pointers through which a node or a document holds another
HoldFields ==
  {"children", "last", "properties", "nsDef", "intSubset", "extSubset", "next", "prev"}

\* C26: every node constructor only allocates: on return no node or
\* document that existed before has a children, last, properties, nsDef,
\* subset, next or prev pointer to the new node.
C26_ConstructorsOnlyAllocate ==
  [][op'.ret # NULL =>
       \A m \in Existing : \A f \in HoldFields : heap'[m][f] # op'.ret]_vars

\* the chain from n on along next, for attributes and for declarations
NextSeq(h, n) == SiblingSeq(h, n, NumNodes)

\* C26, as the code has it: a constructor given no owner, and every
\* constructor of an element, text, comment, PI, CDATA, reference or
\* fragment node, only allocates and leaves every existing node as it was;
\* xmlNewProp given an element appends the new attribute to the element's
\* attribute chain, xmlNewNs given an element appends the new declaration
\* to the element's nsDef chain, and xmlNewDtd given a document stores the
\* new DTD in the document's extSubset; nothing else of an existing node
\* changes, and a call that returns NULL changes no existing node.
C26_ConstructorsLinkToOwner ==
  [][op'.name # "init" =>
       LET new == op'.ret
           owner == op'.a
       IN IF new # NULL /\ owner # NULL /\ op'.name = "xmlNewProp"
          THEN /\ NextSeq(heap', heap'[owner].properties)
                    = NextSeq(heap, heap[owner].properties) \o <<new>>
               /\ heap'[new].parent = owner /\ heap'[new].doc = heap[owner].doc
               /\ heap'[new].prev = (IF heap[owner].properties = NULL THEN NULL
                                     ELSE LastOfChain(heap, heap[owner].properties, NumNodes))
               /\ \A m \in Existing : \A f \in DOMAIN ZeroNode :
                    heap'[m][f] # heap[m][f] =>
                      \/ m = owner /\ f = "properties" /\ heap[owner].properties = NULL
                      \/ m = heap'[new].prev /\ f = "next"
          ELSE IF new # NULL /\ owner # NULL /\ op'.name = "xmlNewNs"
          THEN /\ NextSeq(heap', heap'[owner].nsDef)
                    = NextSeq(heap, heap[owner].nsDef) \o <<new>>
               /\ \A m \in Existing : \A f \in DOMAIN ZeroNode :
                    heap'[m][f] # heap[m][f] =>
                      \/ m = owner /\ f = "nsDef" /\ heap[owner].nsDef = NULL
                      \/ heap'[m].next = new /\ f = "next" /\ heap[m].type = "ns"
          ELSE IF new # NULL /\ owner # NULL /\ op'.name = "xmlNewDtd"
          THEN /\ heap'[owner].extSubset = new /\ heap[owner].extSubset = NULL
               /\ heap'[new].doc = owner
               /\ \A m \in Existing : \A f \in DOMAIN ZeroNode :
                    heap'[m][f] # heap[m][f] => m = owner /\ f = "extSubset"
          ELSE \A m \in Existing : heap'[m] = heap[m]]_vars

\* xmlNewProp on the root element, which had the attribute p: the new
\* attribute is chained after p
C26_Witness ==
  /\ op.name = "xmlNewProp" /\ op.a = 2 /\ op.ret # NULL /\ steps = 1
  /\ heap[2].properties = 3 /\ heap[3].next = op.ret
  /\ heap[op.ret].prev = 3 /\ heap[op.ret].parent = 2 /\ heap[op.ret].name = "q"

\* the members of the sequence s that are no elements, in order
RECURSIVE NonElements(_, _)
NonElements(h, s) ==
  IF s = <<>> THEN <<>>
  ELSE IF h[Head(s)].type = "elem" THEN NonElements(h, Tail(s))
  ELSE <<Head(s)>> \o NonElements(h, Tail(s))

\* the top-level nodes of a document, in order
TopLevel(h, doc) == SiblingSeq(h, h[doc].children, NumNodes)

\* the first member of s that is an element, NULL when there is none
RECURSIVE FirstElementOf(_, _)
FirstElementOf(h, s) ==
  IF s = <<>> THEN NULL
  ELSE IF h[Head(s)].type = "elem" THEN Head(s)
  ELSE FirstElementOf(h, Tail(s))

\* a call xmlDocSetRootElement(doc, root) with root an element, on a tree in
\* shape
RootSet ==
  /\ op'.name = "xmlDocSetRootElement"
  /\ TreeOK(heap)
  /\ heap[op'.b].type = "elem"

\* C27: after xmlDocSetRootElement(doc, root) with root an element,
\* xmlDocGetRootElement(doc) returns root, root's parent is the document
\* and root is among its top-level nodes, the document's non-element
\* top-level nodes keep their relative order, and the call returns the
\* element that was the document's root (its first top-level element other
\* than root), fully detached with null parent, prev and next, or NULL
\* when there was none.
C27_SetRootElement ==
  [][RootSet =>
       LET doc == op'.a
           root == op'.b
           old == FirstElementOf(heap, Without(TopLevel(heap, doc), root))
       IN /\ xmlDocGetRootElement(heap', doc) = root
          /\ heap'[root].parent = doc
          /\ heap'[root].doc = doc
          /\ \E i \in 1..Len(TopLevel(heap', doc)) : TopLevel(heap', doc)[i] = root
          /\ NonElements(heap', TopLevel(heap', doc)) = NonElements(heap, TopLevel(heap, doc))
          /\ TopLevel(heap', doc) =
               (IF old = NULL THEN Without(TopLevel(heap, doc), root) \o <<root>>
                ELSE Substituted(Without(TopLevel(heap, doc), root), old, root))
          /\ op'.ret = old
          /\ old # NULL => Unlinked(heap', old) /\ Live(heap', old)
          /\ TreeOK(heap')]_vars

\* element b, with its two children, has become the root of document 1 in
\* the place of element a, which was returned detached
C27_Witness ==
  /\ op.name = "xmlDocSetRootElement" /\ op.a = 1 /\ op.b = 4 /\ op.ret = 3 /\ steps = 1
  /\ heap[1].children = 4 /\ heap[1].last = 4 /\ heap[4].parent = 1
  /\ heap[4].name = "b" /\ heap[4].children = 5 /\ heap[5].doc = 1 /\ heap[6].doc = 1
  /\ Unlinked(heap, 3) /\ Live(heap, 3) /\ heap[3].name = "a"

\* ------------------------------------------------------- deep copies
\* xmlCopyNode (tree.c:4427-4433)
xmlCopyNode(h, node, extended, z) ==
  xmlStaticCopyNode(h, node, NULL, NULL, extended, z)

\* <a xmlns:x="u1"><x:b x:k="">t</x:b></a> in a document, and a second,
\* empty document
SceneBound ==
  LET sNodes(g) == xmlNewDocNode(xmlNewDocNode(xmlNewDoc(g, 1), 2, 1, NULL, "a"),
                                 3, 1, NULL, "b")
      sLeaves(g) == xmlNewDoc(xmlNewDocText(xmlNewDocProp(g, 4, 1, "k"), 5, 1, <<"t">>), 6)
      sTree(g) == xmlAddChild(xmlAddChild(xmlAddChild(xmlAddChild(g,
                     1, 2, FALSE).h, 2, 3, FALSE).h, 3, 4, FALSE).h, 3, 5, FALSE).h
      sRefs(g) == xmlSetNs(xmlSetNs(xmlNewNs(g, 2, U1, PrefixX).h, 3, 7), 4, 7)
  IN sRefs(sTree(sLeaves(sNodes(EmptyHeap))))

\* <p>a<m/>b&e;</p> in a document that declares the entity e, after m was
\* cut out with xmlUnlinkNode and made the root of a second document: the
\* two text nodes are left side by side
SceneRuns ==
  LET sNodes(g) == xmlNewDocText(xmlNewDocNode(xmlNewDocText(xmlNewDocNode(
                     xmlNewDoc(g, 1), 2, 1, NULL, "p"), 3, 1, <<"a">>),
                     4, 1, NULL, "m"), 5, 1, <<"b">>)
      sEntity(g) == [g EXCEPT ![6] = [ZeroNode EXCEPT !.st = "live", !.type = "entdecl",
                                                      !.name = EntityName,
                                                      !.content = <<"v", "w">>, !.doc = 1]]
      sRef(g) == xmlNewDoc(xmlNewReference(g, 7, 1, EntityName), 8)
      sTree(g) == xmlAddChild(xmlAddChild(xmlAddChild(xmlAddChild(xmlAddChild(g,
                     1, 2, FALSE).h, 2, 3, FALSE).h, 2, 4, FALSE).h,
                     2, 5, FALSE).h, 2, 7, FALSE).h
      sCut(g) == xmlAddChild(xmlUnlinkNode(g, 4), 8, 4, FALSE).h
  IN sCut(sTree(sRef(sEntity(sNodes(EmptyHeap)))))

\* <q>&e;</q> in a document that declares the entity e, and a second
\* document with a declaration of e of its own
SceneRefs ==
  LET sDocs(g) == [xmlNewDoc(xmlNewDoc(g, 1), 3) EXCEPT
                     ![2] = [ZeroNode EXCEPT !.st = "live", !.type = "entdecl",
                                             !.name = EntityName,
                                             !.content = <<"v", "w">>, !.doc = 1],
                     ![4] = [ZeroNode EXCEPT !.st = "live", !.type = "entdecl",
                                             !.name = EntityName,
                                             !.content = <<"z">>, !.doc = 3]]
      sNodes(g) == xmlNewReference(xmlNewDocNode(g, 5, 1, NULL, "q"), 6, 1, EntityName)
      sTree(g) == xmlAddChild(xmlAddChild(g, 1, 5, FALSE).h, 5, 6, FALSE).h
  IN sTree(sNodes(sDocs(EmptyHeap)))

CopyDocNode ==
  /\ steps < MaxOps
  /\ \E node \in NodeArgs(heap), doc \in Docs(heap), extended \in {0, 1, 2},
        z \in BOOLEAN :
       \E r \in {xmlDocCopyNode(heap, node, doc, extended, z)} :
         (z => Frees(heap, r.h)) /\ DoneNs("xmlDocCopyNode", node, doc, extended, r)

CopyNode ==
  /\ steps < MaxOps
  /\ \E node \in NodeArgs(heap), extended \in {0, 1, 2}, z \in BOOLEAN :
       \E r \in {xmlCopyNode(heap, node, extended, z)} :
         (z => Frees(heap, r.h)) /\ DoneNs("xmlCopyNode", node, NULL, extended, r)

InitCopy ==
  /\ heap \in {SceneBound, SceneRuns, SceneRefs}
  /\ op = NoOp
  /\ steps = 0

NextCopy == CopyDocNode \/ CopyNode

SpecCopy == InitCopy /\ [][NextCopy]_vars

\* the children of a node that belong to it: the child of an entity
\* reference is the declaration of the entity, which belongs to the DTD
KidsOf(h, n) ==
  IF h[n].type = "entref" THEN <<>> ELSE SiblingSeq(h, h[n].children, NumNodes)

PropsOf(h, n) ==
  IF h[n].type = "elem" THEN SiblingSeq(h, h[n].properties, NumNodes) ELSE <<>>

\* the nodes of the subtree of n, attributes and their values included
RECURSIVE NodesOf(_, _)
NodesOf(h, n) ==
  {n} \cup UNION {NodesOf(h, KidsOf(h, n)[i]) : i \in 1..Len(KidsOf(h, n))}
      \cup UNION {NodesOf(h, PropsOf(h, n)[i]) : i \in 1..Len(PropsOf(h, n))}

\* the declarations a subtree carries or refers to
DeclsIn(h, S) ==
  UNION {Chain(h, h[m].nsDef, "next") : m \in S} \cup ({h[m].ns : m \in S} \ {NULL})

\* the reference of m is to a declaration with a non-null href carried by
\* an element of m's ancestor-or-self chain, and no nearer element of the
\* chain declares the prefix
RefInScope(h, m) ==
  LET d == h[m].ns
  IN /\ h[d].st = "live"
     /\ h[d].href # NULLSTR
     /\ \E e \in Scope(h, m) :
          /\ d \in Chain(h, h[e].nsDef, "next")
          /\ \A f \in Scope(h, m) :
               (f # e /\ e \in Ancestors(h, f)) => DeclsOf(h, f, h[d].prefix) = {}

WellFormedRefs(h, S) ==
  \A m \in S : (h[m].type \in {"elem", "attr"} /\ h[m].ns # NULL) => RefInScope(h, m)

\* c is bound in g as n is bound in h
SameBinding(h, n, g, c) ==
  IF h[n].ns = NULL THEN g[c].ns = NULL
  ELSE /\ g[c].ns # NULL
       /\ g[g[c].ns].prefix = h[h[n].ns].prefix
       /\ g[g[c].ns].href = h[h[n].ns].href

\* the subtree of c in g is the subtree of n in h, node for node
RECURSIVE Isomorphic(_, _, _, _)
Isomorphic(h, n, g, c) ==
  /\ g[c].st = "live"
  /\ g[c].type = h[n].type
  /\ g[c].name = h[n].name
  /\ g[c].content = h[n].content
  /\ SameBinding(h, n, g, c)
  /\ Len(KidsOf(g, c)) = Len(KidsOf(h, n))
  /\ Len(PropsOf(g, c)) = Len(PropsOf(h, n))
  /\ \A i \in 1..Len(KidsOf(h, n)) : Isomorphic(h, KidsOf(h, n)[i], g, KidsOf(g, c)[i])
  /\ \A i \in 1..Len(PropsOf(h, n)) : Isomorphic(h, PropsOf(h, n)[i], g, PropsOf(g, c)[i])

\* a deep copy returned a node
DeepCopied ==
  /\ op'.name \in {"xmlDocCopyNode", "xmlCopyNode"}
  /\ op'.c = 1
  /\ op'.ret # NULL

\* no node and no declaration of the copy existed before the call
FreshCopy(h, g, c) ==
  \A m \in NodesOf(g, c) \cup DeclsIn(g, NodesOf(g, c)) : h[m].st = "unalloc"

\* C28 as stated: a deep copy (xmlDocCopyNode or xmlCopyNode with extended
\* 1) of a subtree whose namespace references are well formed is isomorphic
\* to the source (kinds, names, contents, children and attributes in order,
\* namespace bindings by prefix and href), shares no node and no
\* declaration with it, and every node of the copy has the destination
\* document as its doc.
C28_CopyIsomorphic ==
  [][(DeepCopied /\ WellFormedRefs(heap, NodesOf(heap, op'.a))) =>
       /\ Isomorphic(heap, op'.a, heap', op'.ret)
       /\ FreshCopy(heap, heap', op'.ret)
       /\ \A m \in NodesOf(heap', op'.ret) : heap'[m].doc = op'.b]_vars

\* --------------------------------------------------- entity references
\* <a xmlns:x="u1">&u;&e;</a> with a bound to x, the entity e declared and
\* u not; the element <c xmlns="u2" k=""/> was added below the reference to
\* u with xmlAddChild
SceneBoundary ==
  LET sNodes(g) == xmlNewDocProp(xmlNewDocNode(xmlNewReference(xmlNewDocNode(
                     xmlNewDoc(g, 1), 2, 1, NULL, "a"), 3, 1, <<"u">>),
                     4, 1, NULL, "c"), 5, 1, "k")
      sEntity(g) == [g EXCEPT ![6] = [ZeroNode EXCEPT !.st = "live", !.type = "entdecl",
                                                      !.name = EntityName,
                                                      !.content = <<"v", "w">>, !.doc = 1]]
      sRef(g) == xmlNewReference(g, 7, 1, EntityName)
      sTree(g) == xmlAddChild(xmlAddChild(xmlAddChild(xmlAddChild(xmlAddChild(g,
                     1, 2, FALSE).h, 2, 3, FALSE).h, 3, 4, FALSE).h,
                     4, 5, FALSE).h, 2, 7, FALSE).h
      sDecl(g) == xmlNewNs(xmlSetNs(xmlNewNs(g, 2, U1, PrefixX).h, 2, 8),
                           4, U2, NULLSTR).h
  IN sDecl(sTree(sRef(sEntity(sNodes(EmptyHeap)))))

\* <a>&e;</a> and a second, detached reference to e; the declaration of e
\* holds the text node its content was parsed into
SceneAliases ==
  LET sEntity(g) == [xmlNewDocText(xmlNewDoc(g, 1), 3, 1, <<"v", "w">>) EXCEPT
                       ![2] = [ZeroNode EXCEPT !.st = "live", !.type = "entdecl",
                                               !.name = EntityName,
                                               !.content = <<"v", "w">>, !.doc = 1,
                                               !.children = 3, !.last = 3],
                       ![3].parent = 2]
      sNodes(g) == xmlNewReference(xmlNewReference(xmlNewDocNode(g, 4, 1, NULL, "a"),
                                                   5, 1, EntityName), 6, 1, EntityName)
      sTree(g) == xmlAddChild(xmlAddChild(g, 1, 4, FALSE).h, 4, 5, FALSE).h
  IN sTree(sNodes(sEntity(EmptyHeap)))

\* a call is made on a heap in which no link leads into released memory
Usable == steps < MaxOps /\ ~\E n \in TreeNodes(heap) : \E f \in LinkFields :
                               heap[n][f] # NULL /\ ~Live(heap, heap[n][f])

References(h) == {n \in TreeNodes(h) : h[n].type = "entref"}

EntSearchNs ==
  /\ Usable
  /\ \E node \in NodeArgs(heap), nameSpace \in {NULLSTR, PrefixX, XmlPrefix} :
       \E r \in {xmlSearchNs(heap, heap[node].doc, node, nameSpace)} :
         DoneNs("xmlSearchNs", heap[node].doc, node, nameSpace, r)

EntSearchNsByHref ==
  /\ Usable
  /\ \E node \in NodeArgs(heap), href \in {NULLSTR, U1, U2} :
       \E r \in {xmlSearchNsByHref(heap, heap[node].doc, node, href)} :
         DoneNs("xmlSearchNsByHref", heap[node].doc, node, href, r)

EntUnlinkNode ==
  /\ Usable
  /\ \E cur \in References(heap) :
       DoneNs("xmlUnlinkNode", cur, NULL, NULL, R(xmlUnlinkNode(heap, cur), NULL))

EntFreeNode ==
  /\ Usable
  /\ \E cur \in References(heap), z \in BOOLEAN :
       /\ heap[cur].parent = NULL
       /\ DoneNs("xmlFreeNode", cur, NULL, NULL, R(xmlFreeNode(heap, cur, z), NULL))

EntFreeNodeList ==
  /\ Usable
  /\ \E cur \in References(heap), z \in BOOLEAN :
       /\ heap[cur].parent = NULL
       /\ DoneNs("xmlFreeNodeList", cur, NULL, NULL,
                 R(xmlFreeNodeList(heap, cur, z), NULL))

EntSetContent ==
  /\ Usable
  /\ \E cur \in References(heap), content \in Contents, z \in BOOLEAN :
       DoneNs("xmlNodeSetContent", cur, content, NULL,
              R(xmlNodeSetContent(heap, cur, content, z), NULL))

EntSetContentLen ==
  /\ Usable
  /\ \E cur \in References(heap), content \in Contents, z \in BOOLEAN :
       DoneNs("xmlNodeSetContentLen", cur, content, 1,
              R(xmlNodeSetContentLen(heap, cur, content, 1, z), NULL))

EntCopyNode ==
  /\ Usable
  /\ \E node \in References(heap), doc \in {NULL, 1}, extended \in {0, 1, 2} :
       \E r \in {xmlStaticCopyNode(heap, node, doc, NULL, extended, FALSE)} :
         DoneNs("xmlDocCopyNode", node, doc, extended, r)

InitEnt ==
  /\ heap \in {SceneBoundary, SceneAliases}
  /\ op = NoOp
  /\ steps = 0

NextEnt ==
  \/ EntSearchNs
  \/ EntSearchNsByHref
  \/ EntUnlinkNode
  \/ EntFreeNode
  \/ EntFreeNodeList
  \/ EntSetContent
  \/ EntSetContentLen
  \/ EntCopyNode

SpecEnt == InitEnt /\ [][NextEnt]_vars

\* the nodes of the walk up from start
WalkOf(h, start) == {start} \cup Ancestors(h, start)

\* the nodes of the walk that come before its first entity node
BeforeEntity(h, start) ==
  {m \in WalkOf(h, start) :
     \A e \in WalkOf(h, start) :
       h[e].type \in EntityKinds => (e # m /\ e \in Ancestors(h, m))}

SearchedPlainNs ==
  \/ op.name = "xmlSearchNs" /\ op.c # XmlPrefix
  \/ op.name = "xmlSearchNsByHref" /\ op.c # XML_XML_NAMESPACE

\* C29: when the walk up from the start node of xmlSearchNs or
\* xmlSearchNsByHref, for a namespace that is not the reserved one, holds an
\* entity-reference, entity or entity-declaration node (the start node
\* included), the search returns NULL unless an element the walk passes
\* before that node binds the namespace: nothing that an element at or above
\* the entity node declares is returned.
C29_StopsAtEntity ==
  (SearchedPlainNs /\ \E e \in WalkOf(heap, op.b) : heap[e].type \in EntityKinds) =>
    \/ op.ret = NULL
    \/ \E m \in BeforeEntity(heap, op.b) :
         /\ heap[m].type = "elem"
         /\ \/ op.ret \in Chain(heap, heap[m].nsDef, "next")
            \/ (m # op.b /\ op.ret = heap[m].ns)

\* a search for x from an element below an entity reference returned NULL
\* although an element above the reference declares x
C29_Witness ==
  /\ op.name = "xmlSearchNs"
  /\ op.c = PrefixX
  /\ op.ret = NULL
  /\ heap[op.b].type = "elem"
  /\ \E e \in Ancestors(heap, op.b) :
       /\ heap[e].type = "entref"
       /\ \E f \in Ancestors(heap, e) : BoundDecls(heap, f, PrefixX) # {}

\* a call of one of the operations on an entity reference that points at a
\* declaration
OnReference(names) ==
  /\ op'.name \in names
  /\ heap[op'.a].type = "entref"
  /\ heap[op'.a].children # NULL

\* C30: no operation applied to an entity-reference node (xmlFreeNode,
\* xmlFreeNodeList, xmlNodeSetContent, xmlNodeSetContentLen, a copy) frees
\* or changes the entity declaration the reference points at, the content
\* of the declaration or the nodes below it; the declaration stays as it is
\* for every other reference to it.
C30_DeclarationKept ==
  [][OnReference({"xmlFreeNode", "xmlFreeNodeList", "xmlNodeSetContent",
                  "xmlNodeSetContentLen", "xmlDocCopyNode"}) =>
       \A m \in NodesOf(heap, heap[op'.a].children) : heap'[m] = heap[m]]_vars

\* -------------------------------------------- the count of reconciliation
\* C31: xmlReconciliateNs returns the number of namespace declarations it
\* created during the walk (0 when every reference could reuse a
\* declaration, k when k declarations were added), or -1 on error.
C31_CountsCreated ==
  [][(op'.name = "xmlReconciliateNs" /\ op'.ret # -1) =>
       op'.ret = Cardinality(Declarations(heap') \ Declarations(heap))]_vars

\* ------------------------------------------------ the shape of a parsed list
ParsedList == SiblingSeq(heap, op.ret, NumNodes)

ParsedByList ==
  op.name \in {"xmlStringGetNodeList", "xmlStringLenGetNodeList"}

\* C32: the list returned by xmlStringGetNodeList / xmlStringLenGetNodeList
\* holds only text and entity-reference nodes, its prev/next links agree,
\* no two text nodes are adjacent in it, and no node of it refers to a
\* predefined entity.
C32_ListNormalForm ==
  ParsedByList =>
    /\ \A i \in 1..Len(ParsedList) :
         /\ heap[ParsedList[i]].st = "live"
         /\ heap[ParsedList[i]].type \in {"text", "entref"}
         /\ heap[ParsedList[i]].prev = (IF i = 1 THEN NULL ELSE ParsedList[i - 1])
         /\ heap[ParsedList[i]].next =
              (IF i = Len(ParsedList) THEN NULL ELSE ParsedList[i + 1])
         /\ heap[ParsedList[i]].type = "text" => heap[ParsedList[i]].children = NULL
         /\ heap[ParsedList[i]].type = "entref" =>
              xmlGetPredefinedEntity(heap[ParsedList[i]].name) = NULLSTR
    /\ \A i \in 1..(Len(ParsedList) - 1) :
         ~(heap[ParsedList[i]].type = "text" /\ heap[ParsedList[i + 1]].type = "text")

\* a predefined reference and a character reference in one text node next
\* to a reference node
C32_Witness ==
  /\ ParsedByList
  /\ op.value = <<"&", "l", "t", ";", "&", "#", "4", "9", ";", "&", "e", ";">>
  /\ op.len = Len(op.value)
  /\ Len(ParsedList) = 2
  /\ heap[ParsedList[1]].type = "text"
  /\ heap[ParsedList[1]].content = <<"<", "1">>
  /\ heap[ParsedList[2]].type = "entref"

\* ------------------------------------------- prefixes of one nsDef chain
\* C33: after any sequence of xmlNewNs, xmlSearchNs, xmlSearchNsByHref,
\* xmlNewReconciliedNs and xmlReconciliateNs calls no element's nsDef chain
\* holds two declarations with the same prefix (two null prefixes count as
\* the same).
C33_PrefixesDistinct ==
  \A e \in Elements(heap) :
    \A d1, d2 \in Chain(heap, heap[e].nsDef, "next") :
      heap[d1].prefix = heap[d2].prefix => d1 = d2

\* ------------------------------------------- the prefix of a new declaration
U3 == <<"u3">>
DefaultPrefix == <<"d", "e", "f", "a", "u", "l", "t">>
\* a prefix one character longer than "%.20s" keeps
LongPrefix == [i \in 1..(PrefixKeep + 1) |-> "p"]

\* <r xmlns:x="u2"><e xmlns:x1="u2" xmlns:default="u2"/></r> in a document
\* and a detached <s xmlns:x="u1" xmlns="u3" xmlns:ppp...="u3"/>
SceneCrowded ==
  LET sNodes(g) == xmlNewDocNode(xmlNewDocNode(xmlNewDocNode(xmlNewDoc(g, 1),
                     2, 1, NULL, "r"), 3, 1, NULL, "e"), 4, 1, NULL, "s")
      sTree(g) == xmlAddChild(xmlAddChild(g, 1, 2, FALSE).h, 2, 3, FALSE).h
      sBound(g) == xmlNewNs(xmlNewNs(xmlNewNs(g, 2, U2, PrefixX).h,
                     3, U2, PrefixX \o <<"1">>).h, 3, U2, DefaultPrefix).h
      sLoose(g) == xmlNewNs(xmlNewNs(xmlNewNs(g, 4, U1, PrefixX).h,
                     4, U3, NULLSTR).h, 4, U3, LongPrefix).h
  IN sLoose(sBound(sTree(sNodes(EmptyHeap))))

RecNewReconciliedNs ==
  /\ Ready
  /\ \E tree \in Elements(heap) \cup {4, NULL}, ns \in Declarations(heap) \cup {NULL} :
       \E r \in {xmlNewReconciliedNs(heap, 1, tree, ns)} :
         DoneNs("xmlNewReconciliedNs", 1, tree, ns, r)

InitRec ==
  /\ heap = SceneCrowded
  /\ op = NoOp
  /\ steps = 0

NextRec == RecNewReconciliedNs

SpecRec == InitRec /\ [][NextRec]_vars

\* the call made a declaration: none of the href was in scope at tree
Synthesized ==
  /\ op'.name = "xmlNewReconciliedNs"
  /\ op'.ret # NULL
  /\ op'.ret \notin Declarations(heap)

\* the k-th name of a sequence base, base<from>, base<from + 1>, ...
Numbered(base, from, k) ==
  IF k = 0 THEN base ELSE base \o Decimal(from + k - 1)

\* p is the first name of the sequence that no declaration in scope at tree
\* binds
FirstUnused(h, doc, tree, base, from, p) ==
  \E k \in 0..ProbeCap :
    /\ p = Numbered(base, from, k)
    /\ \A j \in 0..k :
         (xmlSearchNs(h, doc, tree, Numbered(base, from, j)).ret = NULL) <=> (j = k)

OriginalPrefix(h, ns) ==
  IF h[ns].prefix = NULLSTR THEN DefaultPrefix ELSE h[ns].prefix

\* the new declaration carries the href of ns and is on tree
Carried ==
  /\ heap'[op'.ret].href = heap[op'.c].href
  /\ op'.ret \in Chain(heap', heap'[op'.b].nsDef, "next")
  /\ Declarations(heap') = Declarations(heap) \cup {op'.ret}

\* C34, as stated: the prefix bound is the first unused name of the sequence
\* prefix, prefix2, prefix3, ... (default, default2, ... for a null
\* prefix), and the declaration carries the original href on the subtree
\* root.
C34_PrefixSequence ==
  [][Synthesized =>
       /\ FirstUnused(heap, op'.a, op'.b, OriginalPrefix(heap, op'.c), 2,
                      heap'[op'.ret].prefix)
       /\ Carried]_vars

\* C34, amended: the prefix bound is the first unused name of the sequence
\* p, p1, p2, ... where p is the first PrefixKeep characters of the
\* original prefix (default for a null prefix), and the declaration carries
\* the original href on the subtree root.
C34_PrefixSequenceFromOne ==
  [][Synthesized =>
       /\ FirstUnused(heap, op'.a, op'.b, FirstPrefix(heap, op'.c), 1,
                      heap'[op'.ret].prefix)
       /\ Carried]_vars

\* x and x1 are bound at e, and the declaration made there is x2=u1
C34_Witness ==
  /\ op.name = "xmlNewReconciliedNs" /\ steps = 1
  /\ op.b = 3 /\ op.ret # NULL /\ op.ret \notin Declarations(SceneCrowded)
  /\ heap[op.ret].prefix = PrefixX \o <<"2">>
  /\ heap[op.ret].href = U1
  /\ op.ret \in Chain(heap, heap[3].nsDef, "next")

\* ------------------------------------------------- the parent relation
Relinkers ==
  {"xmlAddChild", "xmlAddChildList", "xmlAddSibling", "xmlAddNextSibling",
   "xmlAddPrevSibling", "xmlReplaceNode"}

\* no node is reached again by following its parent pointers
Acyclic(h) == \A n \in Ids : h[n].st = "live" => ~OnCycle(h, n, "parent")

\* C35: after a call of xmlAddChild, xmlAddChildList, xmlAddSibling,
\* xmlAddNextSibling, xmlAddPrevSibling or xmlReplaceNode the parent relation
\* is acyclic as it was before: no node is its own ancestor.
C35_ParentsAcyclic ==
  [][(op'.name \in Relinkers /\ Acyclic(heap)) => Acyclic(heap')]_vars

\* ------------------------------------------------------ attribute removal
\* the while loop of xmlRemoveProp: the attribute before cur in the chain
\* from tmp, NULL when cur is not in it (tree.c:2280-2291)
RECURSIVE RemoveScan(_, _, _, _)
RemoveScan(h, tmp, cur, fuel) ==
  IF tmp = NULL \/ fuel = 0 THEN NULL
  ELSE IF h[tmp].next = cur THEN tmp
  ELSE RemoveScan(h, h[tmp].next, cur, fuel - 1)

\* tmp->next = cur->next; if (tmp->next != NULL) tmp->next->prev = tmp
RemoveAfter(h, tmp, cur) ==
  LET sNext(g) == W(g, tmp, "next", g[cur].next)
      sPrev(g) == IF g[tmp].next # NULL THEN W(g, g[tmp].next, "prev", tmp) ELSE g
  IN sPrev(sNext(h))

xmlRemoveProp(h, cur, z) ==
  IF cur = NULL THEN R(h, -1)
  ELSE IF h[cur].parent = NULL THEN R(h, -1)
  ELSE IF h[h[cur].parent].properties = cur
  THEN R(xmlFreeProp(W(h, h[cur].parent, "properties", h[cur].next), cur, z), 0)
  ELSE IF RemoveScan(h, h[h[cur].parent].properties, cur, NumNodes) # NULL
  THEN R(xmlFreeProp(RemoveAfter(h, RemoveScan(h, h[h[cur].parent].properties,
                                               cur, NumNodes), cur),
                     cur, z), 0)
  ELSE R(h, -1)

\* the first attribute from prop on with the name and no namespace
RECURSIVE PlainProp(_, _, _, _)
PlainProp(h, prop, name, fuel) ==
  IF prop = NULL \/ fuel = 0 THEN NULL
  ELSE IF xmlStrEqual(h[prop].name, name) /\ h[prop].ns = NULL THEN prop
  ELSE PlainProp(h, h[prop].next, name, fuel - 1)

\* a NULL name is the empty name
xmlUnsetProp(h, node, name, z) ==
  IF node = NULL \/ name = "" THEN R(h, -1)
  ELSE IF PlainProp(h, h[node].properties, name, NumNodes) # NULL
  THEN R(xmlFreeProp(xmlUnlinkNode(h, PlainProp(h, h[node].properties, name, NumNodes)),
                     PlainProp(h, h[node].properties, name, NumNodes), z), 0)
  ELSE R(h, -1)

\* the attribute exists: its value is replaced (tree.c:7110-7138)
SetPropValue(h, node, prop, value, z) ==
  LET oldprop == h[prop].children
      sClear(g) == W(W(g, prop, "children", NULL), prop, "last", NULL)
      sValue(g) ==
        IF value = NULLSTR THEN g
        ELSE W(NewDocPropValue(
                 xmlStringGetNodeList(g, g[node].doc, xmlEncodeEntitiesReentrant(value)),
                 prop).h,
               prop, "doc", g[node].doc)
      sFree(g) == IF oldprop # NULL THEN xmlFreeNodeList(g, oldprop, z) ELSE g
  IN R(sFree(sValue(sClear(h))), prop)

xmlSetProp(h, node, name, value, z) ==
  IF node = NULL \/ name = "" \/ h[node].type # "elem" THEN R(h, NULL)
  ELSE IF PlainProp(h, h[node].properties, name, NumNodes) # NULL
  THEN SetPropValue(h, node, PlainProp(h, h[node].properties, name, NumNodes), value, z)
  ELSE xmlNewProp(h, node, name, value)

\* <n p="v" q="" r=""/> in a document, and an attribute without an element
SceneProps ==
  LET sNodes(g) == xmlNewDocProp(xmlNewDocNode(xmlNewDoc(g, 1), 2, 1, NULL, "n"), 3, 1, "d")
      sProps(g) == xmlNewProp(xmlNewProp(xmlNewProp(g, 2, "p", <<"v">>).h,
                                2, "q", NULLSTR).h, 2, "r", NULLSTR).h
  IN sProps(xmlAddChild(sNodes(EmptyHeap), 1, 2, FALSE).h)

PropNames == {"", "p", "q", "r", "s"}

LiveAttributes(h) == {n \in Ids : h[n].st = "live" /\ h[n].type = "attr"}

PropDone(name, a, b, r) ==
  /\ Malloc(r.h) # NULL
  /\ heap' = r.h
  /\ op' = [name |-> name, a |-> a, b |-> b, ret |-> r.ret]
  /\ steps' = steps + 1

PropNewProp ==
  /\ Ready
  /\ \E node \in {NULL, 1, 2}, name \in PropNames, value \in Contents :
       \E r \in {xmlNewProp(heap, node, name, value)} :
         PropDone("xmlNewProp", node, name, r)

PropSetProp ==
  /\ Ready
  /\ \E node \in {NULL, 1, 2}, name \in PropNames, value \in Contents, z \in BOOLEAN :
       \E r \in {xmlSetProp(heap, node, name, value, z)} :
         (z => Frees(heap, r.h)) /\ PropDone("xmlSetProp", node, name, r)

PropRemoveProp ==
  /\ Ready
  /\ \E cur \in LiveAttributes(heap) \cup {NULL}, z \in BOOLEAN :
       \E r \in {xmlRemoveProp(heap, cur, z)} :
         (z => Frees(heap, r.h)) /\ PropDone("xmlRemoveProp", cur, NULL, r)

PropUnsetProp ==
  /\ Ready
  /\ \E node \in {NULL, 2}, name \in PropNames, z \in BOOLEAN :
       \E r \in {xmlUnsetProp(heap, node, name, z)} :
         (z => Frees(heap, r.h)) /\ PropDone("xmlUnsetProp", node, name, r)

InitProp == heap = SceneProps /\ op = NoOp /\ steps = 0

NextProp == PropNewProp \/ PropSetProp \/ PropRemoveProp \/ PropUnsetProp

SpecProp == InitProp /\ [][NextProp]_vars

\* C36: after any sequence of xmlNewProp, xmlSetProp, xmlRemoveProp and
\* xmlUnsetProp calls the attribute chain of an element is a well-formed
\* doubly linked list of live attributes: the head's prev is null,
\* a.next.prev = a, every attribute's parent is the element, and no link
\* points to a removed attribute.
C36_AttributeChain ==
  \A e \in Elements(heap) :
    LET chain == SiblingSeq(heap, heap[e].properties, NumNodes)
    IN \A i \in 1..Len(chain) :
         /\ heap[chain[i]].st = "live"
         /\ heap[chain[i]].type = "attr"
         /\ heap[chain[i]].parent = e
         /\ heap[chain[i]].prev = (IF i = 1 THEN NULL ELSE chain[i - 1])

\* ------------------------------------------ the recursion through entities
\* xmlStringGetNodeList calls itself on the content of a declared entity
\* whose children are not built yet (tree.c:1686-1690, 1453-1457).  The
\* call is followed frame by frame: op.stack holds, for every activation,
\* its argument and locals, and for a suspended one the reference node and
\* the declaration it is filling.  MaxDepth is the number of activations
\* the stack of the process has room for.
MaxDepth == 3

NestFrame(v, bounded) ==
  [v |-> v, bounded |-> bounded, cur |-> 1, q |-> 1, ret |-> NULL, last |-> NULL,
   err |-> "none", stop |-> FALSE, node |-> NULL, ent |-> NULL]

\* the locals of a frame as the state of the loop, and back
Locals(f) ==
  [h |-> heap, ret |-> f.ret, last |-> f.last, cur |-> f.cur, q |-> f.q,
   err |-> f.err, stop |-> f.stop]

Stored(f, s) ==
  [f EXCEPT !.ret = s.ret, !.last = s.last, !.cur = s.cur, !.q = s.q,
            !.err = s.err, !.stop = s.stop]

Top == op.stack[Len(op.stack)]

\* the frame below the top one
Caller == op.stack[Len(op.stack) - 1]

\* the loop of the frame is over
AtEnd(f) == f.stop \/ f.v = NULLSTR \/ At(f.v, f.cur) = NUL

\* the text before the '&' saved (tree.c:1565-1587)
Saved(f) == [SaveText(Locals(f), 1, f.v) EXCEPT !.q = f.cur]

RefEnd(f) == ScanName(f.v, f.cur + 1)

RefName(f) == SubSeq(f.v, f.cur + 1, RefEnd(f) - 1)

\* cur is on the '&' of a terminated reference to a declared entity without
\* children, and the reference node can be allocated: the function calls
\* itself (tree.c:1679-1690)
Calls(f) ==
  /\ ~AtEnd(f)
  /\ At(f.v, f.cur) = "&"
  /\ ~Saved(f).stop
  /\ At(f.v, f.cur + 1) # "#"
  /\ At(f.v, RefEnd(f)) # NUL
  /\ RefEnd(f) # f.cur + 1
  /\ xmlGetDocEntity(Saved(f).h, 1, RefName(f)).found
  /\ ~xmlGetDocEntity(Saved(f).h, 1, RefName(f)).pre
  /\ Malloc(Saved(f).h) # NULL
  /\ Saved(f).h[xmlGetDocEntity(Saved(f).h, 1, RefName(f)).node].children = NULL

\* one round of the loop that makes no recursive call
NestStep ==
  /\ op.name = "nested" /\ op.pc = "running"
  /\ ~AtEnd(Top) /\ ~Calls(Top)
  /\ \E s \in {IF At(Top.v, Top.cur) = "&"
               THEN Reference(Saved(Top), 1, Top.v, Top.bounded)
               ELSE [Locals(Top) EXCEPT !.cur = Top.cur + 1]} :
       /\ heap' = s.h
       /\ op' = [op EXCEPT !.stack[Len(op.stack)] = Stored(Top, s)]
  /\ UNCHANGED steps

\* node = xmlNewReference(doc, val) and the call
\* xmlStringGetNodeList(doc, node->content)
NestCall ==
  /\ op.name = "nested" /\ op.pc = "running"
  /\ Calls(Top) /\ Len(op.stack) < MaxDepth
  /\ \E node \in {Malloc(Saved(Top).h)} :
       /\ heap' = xmlNewReference(Saved(Top).h, node, 1, RefName(Top))
       /\ op' = [op EXCEPT
            !.stack = [op.stack EXCEPT ![Len(op.stack)] =
                         [Stored(Top, Saved(Top)) EXCEPT
                            !.node = node,
                            !.ent = xmlGetDocEntity(Saved(Top).h, 1, RefName(Top)).node]]
                      \o <<NestFrame(heap'[node].content, FALSE)>>]
  /\ UNCHANGED steps

\* the same call with no room left for its activation
NestOverflow ==
  /\ op.name = "nested" /\ op.pc = "running"
  /\ Calls(Top) /\ Len(op.stack) = MaxDepth
  /\ op' = [op EXCEPT !.pc = "overflow"]
  /\ UNCHANGED <<heap, steps>>

\* what the top activation returns
NestResult ==
  IF Top.v = NULLSTR THEN [h |-> heap, ret |-> NULL, err |-> "none"]
  ELSE ParseResult(FinalText(Locals(Top), 1, Top.v))

\* return (ret) to the caller: ent->children and the parents are set, the
\* reference node is appended, cur++ and q = cur (tree.c:1688-1708)
NestReturn ==
  /\ op.name = "nested" /\ op.pc = "running"
  /\ AtEnd(Top) /\ Len(op.stack) > 1
  /\ \E s \in {Appended(Locals(Caller),
                        EntityChildren(Caller.ent, NestResult, Caller.bounded),
                        Caller.node)} :
       /\ heap' = s.h
       /\ op' = [op EXCEPT
            !.stack = [SubSeq(op.stack, 1, Len(op.stack) - 1) EXCEPT
                         ![Len(op.stack) - 1] =
                            [Stored(Caller, s) EXCEPT !.cur = RefEnd(Caller) + 1,
                                                      !.q = RefEnd(Caller) + 1,
                                                      !.node = NULL, !.ent = NULL]],
            !.filled = [op.filled EXCEPT ![Caller.ent] = @ + 1]]
  /\ UNCHANGED steps

\* return (ret) of the outermost activation
NestFinish ==
  /\ op.name = "nested" /\ op.pc = "running"
  /\ AtEnd(Top) /\ Len(op.stack) = 1
  /\ heap' = NestResult.h
  /\ op' = [op EXCEPT !.pc = "returned", !.ret = NestResult.ret, !.stack = <<>>]
  /\ UNCHANGED steps

\* entity tables: a document and the declarations
\* <!ENTITY e ...> and <!ENTITY f ...> with the given replacement texts
Declared(n, name, content) ==
  [ZeroNode EXCEPT !.st = "live", !.type = "entdecl", !.name = name,
                   !.content = content, !.doc = 1]

RefE == <<"&", "e", ";">>
RefF == <<"&", "f", ";">>

EntityTables ==
  [plain |-> <<<<"v", "w">>, <<"v">>>>,
   chain |-> <<<<"a">> \o RefF, <<"v">>>>,
   direct |-> <<RefE, <<"v">>>>,
   mutual |-> <<RefF, <<"b">> \o RefE>>]

SceneTable(t) ==
  [xmlNewDoc(EmptyHeap, 1) EXCEPT ![2] = Declared(2, <<"e">>, EntityTables[t][1]),
                                  ![3] = Declared(3, <<"f">>, EntityTables[t][2])]

NestTokens == {<<"a">>, RefE, RefF, <<"&", "l", "t", ";">>}

NestTexts == {<<>>} \cup NestTokens \cup {t \o u : t, u \in NestTokens}

InitNest ==
  /\ \E t \in DOMAIN EntityTables, v \in NestTexts, bounded \in BOOLEAN :
       /\ heap = SceneTable(t)
       /\ op = [name |-> "nested", pc |-> "running", table |-> t, value |-> v,
                bounded |-> bounded, stack |-> <<NestFrame(v, bounded)>>, ret |-> NULL,
                filled |-> [d \in {2, 3} |-> 0]]
  /\ steps = 0

NextNest == NestStep \/ NestCall \/ NestOverflow \/ NestReturn \/ NestFinish

\* the activations run one after the other; nothing else is scheduled
SpecNest == InitNest /\ [][NextNest]_vars /\ WF_vars(NextNest)

\* C37: xmlStringGetNodeList terminates for every text and every set of
\* entity declarations, those whose replacement text refers back to the
\* entity included, and the children chain of each declaration is populated
\* at most once.
C37_ParseTerminates ==
  /\ <>(op.pc = "returned")
  /\ [](\A d \in DOMAIN op.filled : op.filled[d] <= 1)

====
